---- MODULE Spec2Model ----
(***************************************************************************)
(* A model of the ECU calibration tool (tosih/ecu-reader): the image file, *)
(* its timestamped backups, the table reader (pkg/reader) and the write    *)
(* paths of the editor (pkg/editor, identical in the CLI draft main.go)    *)
(* and of pkg/reader, the scanner, the differ (CLI and HTTP) and the edit  *)
(* dialogs of the GTK window.                                              *)
(*                                                                         *)
(* Conventions                                                             *)
(*  - The image is a sequence of bytes; file offset o is element o+1.      *)
(*  - Physical values, scales and biases are exact decimals, kept as       *)
(*    integers in hundredths (Scale 0.04 is 4, Offset2 -24.0 is -2400).    *)
(*  - Multipliers are kept in quarters (0.5 is 2, 2.0 is 8): every such    *)
(*    multiplier and every product byte*multiplier is exact in float64.    *)
(*  - The catalog keeps the source's names, data types, scales and biases  *)
(*    and its layout (tables back to back, parameters after the tables);   *)
(*    the table shape and the offsets are scaled down by Rows, Cols and    *)
(*    MapBase so that whole images can be enumerated.                      *)
(***************************************************************************)
EXTENDS Integers, Sequences, FiniteSets, TLC

VARIABLES image, backups, now, ops, last, gui, web

vars == <<image, backups, now, ops, last, gui, web>>

(***************************************************************************)
(* Bounds of the model.                                                    *)
(***************************************************************************)
Rows == 2
Cols == 3
MapBase == 1
MaxOps == 2
MaxClock == 1

Cells == Rows * Cols

(***************************************************************************)
(* models.MapConfigs: the first three (confirmed) tables, all uint8.       *)
(***************************************************************************)
MapConfigs ==
  << [Name |-> "Main Fuel Map", Offset |-> MapBase, Rows |-> Rows,
      Cols |-> Cols, DataType |-> "uint8", Scale |-> 4, Offset2 |-> 0],
     [Name |-> "Ignition Timing Map", Offset |-> MapBase + Cells, Rows |-> Rows,
      Cols |-> Cols, DataType |-> "uint8", Scale |-> 75, Offset2 |-> -2400],
     [Name |-> "Lambda Target Map", Offset |-> MapBase + 2 * Cells, Rows |-> Rows,
      Cols |-> Cols, DataType |-> "uint8", Scale |-> 1, Offset2 |-> 50] >>

\* A caller-supplied 16-bit descriptor: ReadMap and EditMapCellDirect both
\* have a uint16 branch although no catalog entry uses it.
Uint16Config ==
  [Name |-> "Custom 16-bit Map", Offset |-> MapBase, Rows |-> Rows,
   Cols |-> Cols, DataType |-> "uint16", Scale |-> 1, Offset2 |-> 0]

\* Offset of the first configuration parameter (0x7000 in the source).
ParamBase == MapBase + 3 * Cells

(***************************************************************************)
(* models.ConfigParams (MinValue, MaxValue in hundredths as well).         *)
(***************************************************************************)
ConfigParams ==
  << [Name |-> "Rev Limiter", Offset |-> ParamBase, DataType |-> "uint8",
      Scale |-> 8537, Offset2 |-> 0, MinValue |-> 600000, MaxValue |-> 750000],
     [Name |-> "Idle Speed Target", Offset |-> ParamBase + 1, DataType |-> "uint8",
      Scale |-> 1000, Offset2 |-> 0, MinValue |-> 65000, MaxValue |-> 110000] >>

FullLen == ParamBase + Len(ConfigParams)

(***************************************************************************)
(* Bytes and the codec.                                                    *)
(***************************************************************************)
At(img, off) == img[off + 1]

\* Division truncating toward zero (Go's float-to-integer conversion).
TruncDiv(a, b) == IF a >= 0 THEN a \div b ELSE -((-a) \div b)

\* The inputs (value, bias, scale) drawn by this model for which the float64
\* quotient (value - bias) / scale falls just below the exact integer
\* quotient, so that truncation yields one less: 1.16/0.04 = 28.999999999999996,
\* (1.16-0.5)/0.01 = 65.99999999999999, 1.16/0.01 = 115.99999999999999.
F64RoundsBelow == { <<116, 0, 4>>, <<116, 50, 1>>, <<116, 0, 1>> }

\* int((value - Offset2) / Scale) as float64 arithmetic computes it.
RawQuotient(value, scale, offset2) ==
  TruncDiv(value - offset2, scale)
    - (IF <<value, offset2, scale>> \in F64RoundsBelow THEN 1 ELSE 0)

\* The bytes r of a table of scale 0.04 and bias 0 for which the float64
\* product float64(r) * 0.04, divided by 0.04 again, falls just below r
\* (29 * 0.04 / 0.04 = 28.999999999999996).  With scale 0.75 and bias
\* -24.0 every step is exact and no byte is affected.
F64DecodedRoundsBelow ==
  { <<r, 0, 4>> : r \in {29, 58, 59, 116, 117, 118, 119, 205, 207, 209, 211,
                         213, 232, 234, 236, 238} }

\* int((decoded - Offset2) / Scale) for decoded = float64(raw)*Scale + Offset2.
RawQuotientDecoded(raw, scale, offset2) ==
  TruncDiv((raw * scale + offset2) - offset2, scale)
    - (IF <<raw, offset2, scale>> \in F64DecodedRoundsBelow THEN 1 ELSE 0)

\* uint8(x), uint16(x) of an integral float: the low bits are kept.
ToUint8(k) == k % 256
ToUint16(k) == k % 65536

\* binary.LittleEndian: low byte first.
PutUint16(img, off, v) ==
  [img EXCEPT ![off + 1] = v % 256, ![off + 2] = v \div 256]

CellWidth(cfg) == IF cfg.DataType = "uint8" THEN 1 ELSE 2

(***************************************************************************)
(* reader.ReadMap: a seek to cfg.Offset, then one binary.Read per cell,    *)
(* row by row; the first read that cannot be filled fails the whole call.  *)
(***************************************************************************)
\* Mutant of ReadCell: a short read is not reported, the missing byte reads 0.
ReadCellShort(img, pos, w) ==
  IF pos >= Len(img)
    THEN [err |-> TRUE, raw |-> 0]
    ELSE [err |-> FALSE,
          raw |-> At(img, pos)
                    + (IF w = 2 /\ pos + 1 < Len(img) THEN 256 * At(img, pos + 1) ELSE 0)]

ReadCell(img, pos, w) ==
  IF pos + w > Len(img)
    THEN [err |-> TRUE, raw |-> 0]
    ELSE [err |-> FALSE,
          raw |-> IF w = 1 THEN At(img, pos)
                           ELSE At(img, pos) + 256 * At(img, pos + 1)]

\* Mutant of CellIndex: the grid is filled column by column.
CellIndexColumnMajor(cfg, i, j) == j * cfg.Rows + i

\* The position of cell (i, j) in the order of the reads: the inner loop
\* runs over the columns.
CellIndex(cfg, i, j) == i * cfg.Cols + j

ReadMap(img, cfg) ==
  LET w == CellWidth(cfg)
      cell(i, j) == ReadCell(img, cfg.Offset + CellIndex(cfg, i, j) * w, w)
  IN  IF \E i \in 0 .. cfg.Rows - 1, j \in 0 .. cfg.Cols - 1 : cell(i, j).err
        THEN [ok |-> FALSE, Data |-> << >>]
        ELSE [ok |-> TRUE,
              Data |-> [i \in 1 .. cfg.Rows |->
                          [j \in 1 .. cfg.Cols |->
                             cell(i - 1, j - 1).raw * cfg.Scale + cfg.Offset2]]]

(***************************************************************************)
(* Initial images: three lengths (the whole image, one cut off right       *)
(* before the parameters, one cut off inside the second table) and two     *)
(* fill patterns with distinct neighbouring bytes.                         *)
(***************************************************************************)
ImageLens == {FullLen, ParamBase, MapBase + Cells + 2}
Fills == {32, 100}
InitImage(n, f) == [k \in 1 .. n |-> (f + 37 * (k - 1)) % 256]

\* The main window before a table is loaded (MainWindow: currentMap nil, no
\* dialog open).  asRead keeps the grid as ReadMap returned it.
GuiInit ==
  [currentMap |-> [loaded |-> FALSE, Config |-> MapConfigs[1], Data |-> << >>,
                   asRead |-> << >>],
   dialog |-> "none", row |-> 0, col |-> 0, param |-> 1,
   value |-> [nan |-> FALSE, num |-> 0],
   selectedMapIdx |-> 1,
   compareFile |-> [set |-> FALSE, data |-> << >>],
   compareMap |-> [set |-> FALSE, Config |-> MapConfigs[1], Data |-> << >>]]

\* The HTTP viewer before a request: the package-level catalog
\* models.MapConfigs, which every handler shares, and the requests of
\* handleMapData being served, each with the locals of its handler.
MaxRequests == 2
NoRequest ==
  [pc |-> "idle", kind |-> "none", idx |-> 0,
   offset |-> [given |-> FALSE, ok |-> FALSE, val |-> 0],
   cfg |-> MapConfigs[1], resp |-> [status |-> "none"]]
WebInit ==
  [catalog |-> MapConfigs, reqs |-> [r \in 1 .. MaxRequests |-> NoRequest]]

NoOp == [op |-> "none", status |-> "none", err |-> "none"]

Init ==
  /\ \E n \in ImageLens, f \in Fills : image = InitImage(n, f)
  /\ backups = << >>
  /\ now = 0
  /\ ops = 0
  /\ last = NoOp
  /\ gui = GuiInit
  /\ web = WebInit

\* The record of a finished call: what it was, how it ended, and the state
\* of the file system when it began.
\* backup is "none" (no backup attempted), "failed" or "written" (under the
\* name of the second `at').
Done(op, status, err, arg, backup, out) ==
  [op |-> op, status |-> status, err |-> err, arg |-> arg, backup |-> backup,
   out |-> out, at |-> now, pre |-> image, preBackups |-> backups]

BackupOutcome(ok) == IF ok THEN "written" ELSE "failed"

\* The clock is observed only through the names of the backups, so a second
\* is let pass only once the current one names a backup.
Tick ==
  /\ now < MaxClock
  /\ now \in DOMAIN backups
  /\ now' = now + 1
  /\ UNCHANGED <<image, backups, ops, last, gui, web>>

(***************************************************************************)
(* A read of a table, from the catalog offset or from a custom offset      *)
(* (web.handleMapData overrides cfg.Offset from the query).                *)
(***************************************************************************)
ReadConfigs == {MapConfigs[2], MapConfigs[3], Uint16Config}

\* The catalog offset, and the offsets around the last one at which the
\* table still fits in the image.
ReadOffsets(c) ==
  LET size == c.Rows * c.Cols * CellWidth(c)
  IN  {c.Offset} \cup
      {o \in {Len(image) - size - 1, Len(image) - size, Len(image) - size + 1} : o >= 0}

DoReadMap ==
  /\ ops < MaxOps
  /\ \E c \in ReadConfigs : \E o \in ReadOffsets(c) :
       LET cfg == [c EXCEPT !.Offset = o]
       IN  last' = Done("ReadMap", "ok", "none", [cfg |-> cfg], "none",
                           ReadMap(image, cfg))
  /\ ops' = ops + 1
  /\ UNCHANGED <<gui, web>>
  /\ UNCHANGED <<image, backups, now>>

(***************************************************************************)
(* editor.CreateBackup / reader.createBackup: the image is read and        *)
(* written to <file>.backup_<timestamp>; the name has a resolution of one  *)
(* second, and os.WriteFile replaces a file of the same name.  ok = FALSE  *)
(* is an I/O failure of that write (directory not writable, disk full).    *)
(***************************************************************************)
CreateBackup(ok) == IF ok THEN (now :> image) @@ backups ELSE backups

(***************************************************************************)
(* Inputs of the cell editors.                                             *)
(***************************************************************************)
ValidCells == {<<0, 1>>, <<Rows - 1, Cols - 1>>}
InvalidCells == {<<-1, 0>>, <<Rows, 0>>, <<0, -1>>, <<0, Cols>>}
CellInputs == ValidCells \cup InvalidCells
\* 1.16, 4.00 and 700.00 in every table's unit; the last one is outside
\* the range of every table, the 16-bit one included.
CellValues == {116, 400, 70000}

\* Mutant of InvalidCoordinates: the upper bounds are off by one.
InvalidCoordinatesOffByOne(cfg, row, col) ==
  row < 0 \/ row > cfg.Rows \/ col < 0 \/ col > cfg.Cols

\* row < 0 || row >= cfg.Rows || col < 0 || col >= cfg.Cols
InvalidCoordinates(cfg, row, col) ==
  row < 0 \/ row >= cfg.Rows \/ col < 0 \/ col >= cfg.Cols

\* cellOffset := cfg.Offset + int64(row*cfg.Cols+col)
CellOffset(cfg, row, col) == cfg.Offset + (row * cfg.Cols + col)

(***************************************************************************)
(* editor.EditMapCellDirect as a function of the file: the outcome and the *)
(* file content it leaves.  A panic (PutUint16 on a one-byte slice) ends   *)
(* the process before os.WriteFile.                                        *)
(***************************************************************************)
EditMapCellDirectFile(img, cfg, row, col, newValue) ==
  LET cellOffset == CellOffset(cfg, row, col)
      k == RawQuotient(newValue, cfg.Scale, cfg.Offset2)
  IN  IF InvalidCoordinates(cfg, row, col)
        THEN [status |-> "error", err |-> "coordinates", image |-> img]
      ELSE IF cellOffset >= Len(img)
        THEN [status |-> "error", err |-> "bounds", image |-> img]
      ELSE IF cfg.DataType = "uint8"
        THEN [status |-> "ok", err |-> "none",
              image |-> [img EXCEPT ![cellOffset + 1] = ToUint8(k)]]
      ELSE IF cellOffset + 2 > Len(img)
        THEN [status |-> "panic", err |-> "index", image |-> img]
      ELSE [status |-> "ok", err |-> "none",
            image |-> PutUint16(img, cellOffset, ToUint16(k))]

DirectConfigs == {MapConfigs[1], MapConfigs[2], [Uint16Config EXCEPT !.Offset = MapBase + 1]}

EditMapCellDirect ==
  /\ ops < MaxOps
  /\ \E cfg \in DirectConfigs, rc \in CellInputs :
       \E v \in IF rc \in ValidCells THEN CellValues ELSE {400} :
         LET res == EditMapCellDirectFile(image, cfg, rc[1], rc[2], v)
         IN  /\ image' = res.image
             /\ last' = Done("EditMapCellDirect", res.status, res.err,
                             [cfg |-> cfg, row |-> rc[1], col |-> rc[2], value |-> v],
                             "none", "none")
  /\ ops' = ops + 1
  /\ UNCHANGED <<gui, web>>
  /\ UNCHANGED <<backups, now>>

(***************************************************************************)
(* editor.EditMapCell (CLI): prompts for row and column, then the value,   *)
(* then a confirmation.  The error of CreateBackup is discarded.  The cell *)
(* is always written as one byte; an offset past the end of the file       *)
(* panics before os.WriteFile.                                             *)
(***************************************************************************)
EditMapCellWrite(img, cfg, row, col, newValue) ==
  LET cellOffset == CellOffset(cfg, row, col)
      newRaw == ToUint8(RawQuotient(newValue, cfg.Scale, cfg.Offset2))
  IN  IF cellOffset >= Len(img)
        THEN [status |-> "panic", err |-> "index", image |-> img]
        ELSE [status |-> "ok", err |-> "none",
              image |-> [img EXCEPT ![cellOffset + 1] = newRaw]]

CliValues == {400, 1200}

EditMapCell ==
  /\ ops < MaxOps
  /\ \E cfg \in {MapConfigs[1], MapConfigs[2]}, rc \in CellInputs :
       \/ /\ InvalidCoordinates(cfg, rc[1], rc[2])
          /\ last' = Done("EditMapCell", "error", "coordinates",
                          [cfg |-> cfg, row |-> rc[1], col |-> rc[2]], "none", "none")
          /\ UNCHANGED <<image, backups>>
       \/ /\ ~InvalidCoordinates(cfg, rc[1], rc[2])
          /\ \E v \in CliValues :
               LET arg == [cfg |-> cfg, row |-> rc[1], col |-> rc[2], value |-> v]
               IN  \/ /\ last' = Done("EditMapCell", "cancelled", "none", arg, "none", "none")
                      /\ UNCHANGED <<image, backups>>
                   \/ \E backupOk \in BOOLEAN :
                        LET res == EditMapCellWrite(image, cfg, rc[1], rc[2], v)
                        IN  /\ backups' = CreateBackup(backupOk)
                            /\ image' = res.image
                            /\ last' = Done("EditMapCell", res.status, res.err, arg,
                                            BackupOutcome(backupOk), "none")
  /\ ops' = ops + 1
  /\ UNCHANGED <<gui, web>>
  /\ UNCHANGED now

(***************************************************************************)
(* editor.EditRevLimiter.                                                  *)
(***************************************************************************)
RevLimiterOffset == ParamBase
RpmInputs == {2999, 3000, 7500, 7501}

\* rpm < 3000 || rpm > 7500
InvalidRpm(rpm) == rpm < 3000 \/ rpm > 7500

\* if len(data) > 0x7000 { data[0x7000] = uint8(rpm / 50) }
RevLimiterWrite(img, rpm) ==
  IF Len(img) > RevLimiterOffset
    THEN [img EXCEPT ![RevLimiterOffset + 1] = ToUint8(rpm \div 50)]
    ELSE img

EditRevLimiter ==
  /\ ops < MaxOps
  /\ \E rpm \in RpmInputs :
       LET arg == [rpm |-> rpm]
       IN  \/ /\ InvalidRpm(rpm)
              /\ last' = Done("EditRevLimiter", "error", "range", arg, "none", "none")
              /\ UNCHANGED <<image, backups>>
           \/ /\ ~InvalidRpm(rpm)
              /\ \/ /\ last' = Done("EditRevLimiter", "dryrun", "none", arg, "none", "none")
                    /\ UNCHANGED <<image, backups>>
                 \/ /\ last' = Done("EditRevLimiter", "cancelled", "none", arg, "none", "none")
                    /\ UNCHANGED <<image, backups>>
                 \/ /\ last' = Done("EditRevLimiter", "error", "backup", arg,
                                    "failed", "none")
                    /\ UNCHANGED <<image, backups>>
                 \/ /\ backups' = CreateBackup(TRUE)
                    /\ image' = RevLimiterWrite(image, rpm)
                    /\ last' = Done("EditRevLimiter", "ok", "none", arg,
                                    "written", "none")
  /\ ops' = ops + 1
  /\ UNCHANGED <<gui, web>>
  /\ UNCHANGED now

(***************************************************************************)
(* editor.ScaleMap and applyFuelEnrichPreset: every byte of the table is   *)
(* replaced by uint8(float64(byte) * multiplier); the multiplier is        *)
(* num/den.  The loop indexes the file content without a length check, so  *)
(* a table that does not fit panics before os.WriteFile.  For every byte b *)
(* float64(b) * 1.05 truncates to the same integer as the exact 105*b/100. *)
(***************************************************************************)
ScaleCell(oldVal, num, den) == ToUint8((oldVal * num) \div den)

ScaleBytes(img, cfg, num, den) ==
  IF cfg.Offset + cfg.Rows * cfg.Cols > Len(img)
    THEN [status |-> "panic", err |-> "index", image |-> img]
    ELSE [status |-> "ok", err |-> "none",
          image |-> [k \in 1 .. Len(img) |->
                       IF k - 1 \in cfg.Offset .. cfg.Offset + cfg.Rows * cfg.Cols - 1
                         THEN ScaleCell(img[k], num, den)
                         ELSE img[k]]]

\* Multipliers in quarters: 0.25, 0.5, 2.0, 2.25.
Multipliers == {1, 2, 8, 9}

\* Mutant of UnsafeMultiplier: the lower end of the band is excluded.
UnsafeMultiplierStrict(q) == q <= 2 \/ q > 8

\* multiplier < 0.5 || multiplier > 2.0
UnsafeMultiplier(q) == q < 2 \/ q > 8

ScaleMap ==
  /\ ops < MaxOps
  /\ \E i \in 1 .. Len(MapConfigs), q \in Multipliers :
       LET cfg == MapConfigs[i]
           arg == [cfg |-> cfg, multiplier |-> q]
       IN  \/ /\ UnsafeMultiplier(q)
              /\ last' = Done("ScaleMap", "error", "range", arg, "none", "none")
              /\ UNCHANGED <<image, backups>>
           \/ /\ ~UnsafeMultiplier(q)
              /\ \/ /\ last' = Done("ScaleMap", "dryrun", "none", arg, "none", "none")
                    /\ UNCHANGED <<image, backups>>
                 \/ /\ last' = Done("ScaleMap", "cancelled", "none", arg, "none", "none")
                    /\ UNCHANGED <<image, backups>>
                 \/ \E backupOk \in BOOLEAN :
                      LET res == ScaleBytes(image, cfg, q, 4)
                      IN  /\ backups' = CreateBackup(backupOk)
                          /\ image' = res.image
                          /\ last' = Done("ScaleMap", res.status, res.err, arg,
                                          BackupOutcome(backupOk), "none")
  /\ ops' = ops + 1
  /\ UNCHANGED <<gui, web>>
  /\ UNCHANGED now

ApplyFuelEnrichPreset ==
  /\ ops < MaxOps
  /\ LET arg == [cfg |-> MapConfigs[1]]
     IN  \/ /\ last' = Done("ApplyFuelEnrichPreset", "dryrun", "none", arg, "none", "none")
            /\ UNCHANGED <<image, backups>>
         \/ /\ last' = Done("ApplyFuelEnrichPreset", "cancelled", "none", arg, "none", "none")
            /\ UNCHANGED <<image, backups>>
         \/ \E backupOk \in BOOLEAN :
              LET res == ScaleBytes(image, MapConfigs[1], 105, 100)
              IN  /\ backups' = CreateBackup(backupOk)
                  /\ image' = res.image
                  /\ last' = Done("ApplyFuelEnrichPreset", res.status, res.err, arg,
                                  BackupOutcome(backupOk), "none")
  /\ ops' = ops + 1
  /\ UNCHANGED <<gui, web>>
  /\ UNCHANGED now

(***************************************************************************)
(* The two writers of a configuration parameter.                           *)
(***************************************************************************)
FindParam(paramName) == {i \in 1 .. Len(ConfigParams) : ConfigParams[i].Name = paramName}

\* realValue < param.MinValue || realValue > param.MaxValue
OutOfRange(param, realValue) ==
  realValue < param.MinValue \/ realValue > param.MaxValue

\* f.Seek(off); binary.Write(f, b): a write at or past the end of the file
\* extends it, the gap reading as zero bytes.
WriteAt(img, off, b) ==
  [k \in 1 .. (IF off + 1 > Len(img) THEN off + 1 ELSE Len(img)) |->
     IF k = off + 1 THEN b ELSE IF k <= Len(img) THEN img[k] ELSE 0]

ParamNames == {"Rev Limiter", "Idle Speed Target", "Boost Limit"}
ParamValues(param) ==
  {param.MinValue - 100, param.MinValue, param.MaxValue, param.MaxValue + 100}

\* reader.WriteConfigParam(filename, paramName, realValue)
ReaderWriteConfigParam ==
  /\ ops < MaxOps
  /\ \E name \in ParamNames :
       \/ /\ FindParam(name) = {}
          /\ last' = Done("ReaderWriteConfigParam", "error", "notfound",
                          [name |-> name], "none", "none")
          /\ UNCHANGED <<image, backups>>
       \/ \E i \in FindParam(name) : \E v \in ParamValues(ConfigParams[i]) :
            LET param == ConfigParams[i]
                arg == [name |-> name, param |-> param, value |-> v]
            IN  \/ /\ OutOfRange(param, v)
                   /\ last' = Done("ReaderWriteConfigParam", "error", "range", arg, "none", "none")
                   /\ UNCHANGED <<image, backups>>
                \/ /\ ~OutOfRange(param, v)
                   /\ \/ /\ last' = Done("ReaderWriteConfigParam", "error", "backup",
                                         arg, "failed", "none")
                         /\ UNCHANGED <<image, backups>>
                      \/ /\ backups' = CreateBackup(TRUE)
                         /\ image' = WriteAt(image, param.Offset,
                                       ToUint8(RawQuotient(v, param.Scale, param.Offset2)))
                         /\ last' = Done("ReaderWriteConfigParam", "ok", "none", arg,
                                         "written", "none")
  /\ ops' = ops + 1
  /\ UNCHANGED <<gui, web>>
  /\ UNCHANGED now

\* editor.WriteConfigParam(filename, param, value) as a function of the file.
EditorWriteConfigParamFile(img, param, value) ==
  IF param.Offset >= Len(img)
    THEN [status |-> "error", err |-> "bounds", image |-> img]
    ELSE [status |-> "ok", err |-> "none",
          image |-> [img EXCEPT ![param.Offset + 1] =
                       ToUint8(RawQuotient(value, param.Scale, param.Offset2))]]

EditorWriteConfigParam ==
  /\ ops < MaxOps
  /\ \E i \in 1 .. Len(ConfigParams) : \E v \in ParamValues(ConfigParams[i]) :
       LET res == EditorWriteConfigParamFile(image, ConfigParams[i], v)
       IN  /\ image' = res.image
           /\ last' = Done("EditorWriteConfigParam", res.status, res.err,
                           [param |-> ConfigParams[i], value |-> v], "none", "none")
  /\ ops' = ops + 1
  /\ UNCHANGED <<gui, web>>
  /\ UNCHANGED <<backups, now>>

(***************************************************************************)
(* The codec taken both ways round on one cell of a catalog table.         *)
(* EncodeDecoded: ReadMap, then EditMapCellDirect with the value ReadMap   *)
(* returned for the cell.  DecodeEncoded: EditMapCellDirect with a typed   *)
(* value, then ReadMap.                                                    *)
(***************************************************************************)
CodecConfigs == {MapConfigs[1], MapConfigs[2]}

EncodeDecoded ==
  /\ ops < MaxOps
  /\ \E cfg \in CodecConfigs, row \in 0 .. Rows - 1, col \in 0 .. Cols - 1 :
       /\ ReadMap(image, cfg).ok
       /\ LET cellOffset == CellOffset(cfg, row, col)
              raw == At(image, cellOffset)
              newRaw == ToUint8(RawQuotientDecoded(raw, cfg.Scale, cfg.Offset2))
          IN  /\ image' = [image EXCEPT ![cellOffset + 1] = newRaw]
              /\ last' = Done("EncodeDecoded", "ok", "none",
                              [cfg |-> cfg, row |-> row, col |-> col,
                               value |-> ReadMap(image, cfg).Data[row + 1][col + 1]],
                              "none", newRaw)
  /\ ops' = ops + 1
  /\ UNCHANGED <<gui, web>>
  /\ UNCHANGED <<backups, now>>

DecodeEncoded ==
  /\ ops < MaxOps
  /\ \E cfg \in CodecConfigs, rc \in ValidCells, v \in CellValues :
       LET res == EditMapCellDirectFile(image, cfg, rc[1], rc[2], v)
       IN  /\ res.status = "ok"
           /\ ReadMap(res.image, cfg).ok
           /\ image' = res.image
           /\ last' = Done("DecodeEncoded", "ok", "none",
                           [cfg |-> cfg, row |-> rc[1], col |-> rc[2], value |-> v],
                           "none", ReadMap(res.image, cfg).Data[rc[1] + 1][rc[2] + 1])
  /\ ops' = ops + 1
  /\ UNCHANGED <<gui, web>>
  /\ UNCHANGED <<backups, now>>

(***************************************************************************)
(* scanner.ScanForMaps.  The three shapes of the source (8x8, 8x16, 16x16) *)
(* and its step (0x40, the cell count of the smallest shape) are scaled    *)
(* down keeping their proportions.  A scan result keeps the fields the     *)
(* properties speak of (not the variance and the preview text).            *)
(***************************************************************************)
MaxScanLen == 9

ScanSizes == << [rows |-> 1, cols |-> 2], [rows |-> 1, cols |-> 4],
                [rows |-> 2, cols |-> 4] >>
ScanStep == 2

\* Flattening of a sequence of sequences, in order.
RECURSIVE Flatten(_)
Flatten(ss) == IF ss = << >> THEN << >> ELSE Head(ss) \o Flatten(Tail(ss))

\* for offset := 0; offset < len(data)-byteCount; offset += 0x40
ScanOffsets(len, byteCount) ==
  IF len - byteCount <= 0
    THEN << >>
    ELSE [k \in 1 .. ((len - byteCount - 1) \div ScanStep) + 1 |-> (k - 1) * ScanStep]

\* byteOrder.Uint16
Uint16At(img, off, endianness) ==
  IF endianness = "LE" THEN At(img, off) + 256 * At(img, off + 1)
                       ELSE 256 * At(img, off) + At(img, off + 1)

SeqMin(values) ==
  CHOOSE m \in {values[i] : i \in DOMAIN values} : \A i \in DOMAIN values : m <= values[i]
SeqMax(values) ==
  CHOOSE m \in {values[i] : i \in DOMAIN values} : \A i \in DOMAIN values : m >= values[i]

\* Mutant of LowVariance: a range equal to the threshold is rejected too.
LowVarianceStrict(min, max, threshold) == (max - min) <= threshold \/ max = 0

\* if (max-min) < 10 || max == 0 { return nil }
LowVariance(min, max, threshold) == (max - min) < threshold \/ max = 0

ScanResult(offset, rows, cols, dataType, endianness, values) ==
  [Offset |-> offset, Rows |-> rows, Cols |-> cols, DataType |-> dataType,
   Endianness |-> endianness, Min |-> SeqMin(values), Max |-> SeqMax(values)]

\* scanUint8: no result or one.
scanUint8(data, offset, rows, cols) ==
  LET cellCount == rows * cols
      values == [i \in 1 .. cellCount |-> At(data, offset + i - 1)]
  IN  IF offset + cellCount > Len(data) THEN << >>
      ELSE IF LowVariance(SeqMin(values), SeqMax(values), 10) THEN << >>
      ELSE << ScanResult(offset, rows, cols, "uint8", "N/A", values) >>

\* scanUint16: no result or one.
scanUint16(data, offset, rows, cols, endianness) ==
  LET cellCount == rows * cols
      values == [i \in 1 .. cellCount |-> Uint16At(data, offset + (i - 1) * 2, endianness)]
  IN  IF offset + cellCount * 2 > Len(data) THEN << >>
      ELSE IF LowVariance(SeqMin(values), SeqMax(values), 100) THEN << >>
      ELSE << ScanResult(offset, rows, cols, "uint16", endianness, values) >>

\* Mutant of ScanCalls: the 16-bit pass is made once per byte order, the
\* little-endian offsets before the big-endian ones.
ScanCallsByHypothesis(data) ==
  Flatten([s \in 1 .. Len(ScanSizes) |->
    LET size == ScanSizes[s]
        cellCount == size.rows * size.cols
        o8 == ScanOffsets(Len(data), cellCount)
        o16 == ScanOffsets(Len(data), cellCount * 2)
    IN  [k \in 1 .. Len(o8) |->
           [rows |-> size.rows, cols |-> size.cols, dataType |-> "uint8",
            endianness |-> "N/A", offset |-> o8[k]]]
        \o [k \in 1 .. Len(o16) |->
              [rows |-> size.rows, cols |-> size.cols, dataType |-> "uint16",
               endianness |-> "LE", offset |-> o16[k]]]
        \o [k \in 1 .. Len(o16) |->
              [rows |-> size.rows, cols |-> size.cols, dataType |-> "uint16",
               endianness |-> "BE", offset |-> o16[k]]]])

\* The calls of scanUint8 and scanUint16 in the order ScanForMaps makes them:
\* per shape, the 8-bit pass over the offsets, then the 16-bit pass with the
\* little-endian and the big-endian call at each offset.
ScanCalls(data) ==
  Flatten([s \in 1 .. Len(ScanSizes) |->
    LET size == ScanSizes[s]
        cellCount == size.rows * size.cols
        o8 == ScanOffsets(Len(data), cellCount)
        o16 == ScanOffsets(Len(data), cellCount * 2)
    IN  [k \in 1 .. Len(o8) |->
           [rows |-> size.rows, cols |-> size.cols, dataType |-> "uint8",
            endianness |-> "N/A", offset |-> o8[k]]]
        \o Flatten([k \in 1 .. Len(o16) |->
              << [rows |-> size.rows, cols |-> size.cols, dataType |-> "uint16",
                  endianness |-> "LE", offset |-> o16[k]],
                 [rows |-> size.rows, cols |-> size.cols, dataType |-> "uint16",
                  endianness |-> "BE", offset |-> o16[k]] >>])])

ScanCall(data, c) ==
  IF c.dataType = "uint8"
    THEN scanUint8(data, c.offset, c.rows, c.cols)
    ELSE scanUint16(data, c.offset, c.rows, c.cols, c.endianness)

ScanForMaps ==
  /\ ops < MaxOps
  /\ LET calls == ScanCalls(image)
     IN  last' = Done("ScanForMaps", "ok", "none", [sizes |-> ScanSizes], "none",
                      [calls |-> calls,
                       results |-> Flatten([k \in 1 .. Len(calls) |->
                                              ScanCall(image, calls[k])])])
  /\ ops' = ops + 1
  /\ UNCHANGED <<gui, web>>
  /\ UNCHANGED <<image, backups, now>>

\* The 8-bit scanner (ScanForMaps with hasGoodVariance).
\* return (max-min) >= 10 && max > 0, on a slice of at least two bytes.
hasGoodVariance(values) ==
  /\ Len(values) >= 2
  /\ ~LowVariance(SeqMin(values), SeqMax(values), 10)

ScanBytesCalls(data) ==
  Flatten([s \in 1 .. Len(ScanSizes) |->
    LET size == ScanSizes[s]
        o8 == ScanOffsets(Len(data), size.rows * size.cols)
    IN  [k \in 1 .. Len(o8) |->
           [rows |-> size.rows, cols |-> size.cols, dataType |-> "uint8",
            endianness |-> "N/A", offset |-> o8[k]]]])

ScanBytesCall(data, c) ==
  LET values == [i \in 1 .. c.rows * c.cols |-> At(data, c.offset + i - 1)]
  IN  IF hasGoodVariance(values)
        THEN << ScanResult(c.offset, c.rows, c.cols, "uint8", "N/A", values) >>
        ELSE << >>

ScanForMapsBytes ==
  /\ ops < MaxOps
  /\ LET calls == ScanBytesCalls(image)
     IN  last' = Done("ScanForMapsBytes", "ok", "none", [sizes |-> ScanSizes], "none",
                      [calls |-> calls,
                       results |-> Flatten([k \in 1 .. Len(calls) |->
                                              ScanBytesCall(image, calls[k])])])
  /\ ops' = ops + 1
  /\ UNCHANGED <<gui, web>>
  /\ UNCHANGED <<image, backups, now>>

\* Images for the scanner: every window of four bytes over a few values
\* (equal bytes, zero bytes, ranges of 5, 10, 15, 85, 95 and 100), padded
\* with equal bytes.  The lengths: one that only the smallest window fits,
\* one that is a multiple of the step (as the 32 KiB of a dump is a multiple
\* of 0x40), so that a window of every size ends at the last byte, and one
\* that is not.
ScanBytes == {0, 5, 15, 100}
ScanPads == {0, 5}
ScanLens == {5, MaxScanLen - 1, MaxScanLen}

InitScan ==
  /\ \E a \in ScanBytes, b \in ScanBytes, c \in ScanBytes, d \in ScanBytes :
       \E pad \in ScanPads, n \in ScanLens :
         image = <<a, b, c, d>> \o [k \in 1 .. n - 4 |-> pad]
  /\ backups = << >>
  /\ now = 0
  /\ ops = 0
  /\ last = NoOp
  /\ gui = GuiInit
  /\ web = WebInit

(***************************************************************************)
(* The differ: compare.CompareFiles (CLI) and web.handleCompareData.       *)
(* Differences and sums are exact (hundredths); a float64 quotient is kept *)
(* as its numerator and denominator, and x/0 is NaN or an infinity.        *)
(***************************************************************************)
\* "Correction Table 1", the first catalog table of another shape; it lies
\* before the main fuel map.
CorrectionTable1 ==
  [Name |-> "Correction Table 1", Offset |-> 0, Rows |-> 1, Cols |-> MapBase,
   DataType |-> "uint8", Scale |-> 1, Offset2 |-> 0]

\* Mutant of compareMapData: the operands are exchanged.
compareMapDataSwapped(data1, data2) ==
  [status |-> "ok",
   diff |-> [i \in 1 .. Len(data1) |->
               [j \in 1 .. Len(data1[1]) |-> data1[i][j] - data2[i][j]]]]

\* compareMapData: the shape is taken from data1; indexing data2 outside
\* its rows or columns (or data1[0] of an empty data1) panics.
compareMapData(data1, data2) ==
  LET rows == Len(data1)
      cols == IF rows = 0 THEN 0 ELSE Len(data1[1])
  IN  IF rows = 0 \/ \E i \in 1 .. rows, j \in 1 .. cols :
                       i > Len(data2) \/ j > Len(data2[i])
        THEN [status |-> "panic", diff |-> << >>]
        ELSE [status |-> "ok",
              diff |-> [i \in 1 .. rows |->
                          [j \in 1 .. cols |-> data2[i][j] - data1[i][j]]]]

\* float64 division.
Float64Div(num, den) ==
  IF den # 0 THEN [kind |-> "finite", num |-> num, den |-> den]
  ELSE IF num = 0 THEN [kind |-> "NaN", num |-> 0, den |-> 0]
  ELSE [kind |-> "Inf", num |-> num, den |-> 0]

\* Mutant of DiffStats: a cell with delta 0 is counted as changed.
RECURSIVE DiffStatsAll(_, _, _)
DiffStatsAll(diff, cfg, k) ==
  IF k = 0
    THEN [changedCells |-> 0, totalDiff |-> 0, maxDiff |-> 0, minDiff |-> 0]
    ELSE LET s == DiffStatsAll(diff, cfg, k - 1)
             d == diff[((k - 1) \div cfg.Cols) + 1][((k - 1) % cfg.Cols) + 1]
         IN  [changedCells |-> s.changedCells + 1,
              totalDiff |-> s.totalDiff + d,
              maxDiff |-> IF d > s.maxDiff THEN d ELSE s.maxDiff,
              minDiff |-> IF d < s.minDiff THEN d ELSE s.minDiff]

\* displayComparison: the statistics after the first k cells of the loops
\* over cfg.Rows and cfg.Cols.
RECURSIVE DiffStats(_, _, _)
DiffStats(diff, cfg, k) ==
  IF k = 0
    THEN [changedCells |-> 0, totalDiff |-> 0, maxDiff |-> 0, minDiff |-> 0]
    ELSE LET s == DiffStats(diff, cfg, k - 1)
             d == diff[((k - 1) \div cfg.Cols) + 1][((k - 1) % cfg.Cols) + 1]
         IN  IF d # 0
               THEN [changedCells |-> s.changedCells + 1,
                     totalDiff |-> s.totalDiff + d,
                     maxDiff |-> IF d > s.maxDiff THEN d ELSE s.maxDiff,
                     minDiff |-> IF d < s.minDiff THEN d ELSE s.minDiff]
               ELSE s

\* displayComparison: what it prints.
displayComparison(diff, cfg) ==
  LET s == DiffStats(diff, cfg, cfg.Rows * cfg.Cols)
  IN  [changedCells |-> s.changedCells,
       avgDiff |-> Float64Div(s.totalDiff, s.changedCells),
       maxDiff |-> s.maxDiff,
       minDiff |-> s.minDiff]

\* The tables whose name contains mapType; "all" selects the catalog.
MapTypes == {"all", "fuel", "timing", "boost"}
SelectedConfigs(mapType) ==
  CASE mapType = "all" -> MapConfigs
    [] mapType = "fuel" -> << MapConfigs[1] >>
    [] mapType = "timing" -> << MapConfigs[2] >>
    [] OTHER -> << >>

\* The file the image is compared with: an original dump (of any length and
\* fill), the image itself, or the image with one or two cells of the main
\* fuel map edited.
EditedOnce(img) == EditMapCellDirectFile(img, MapConfigs[1], 0, 1, 400).image
EditedTwice(img) ==
  EditMapCellDirectFile(EditMapCellDirectFile(img, MapConfigs[1], 0, 0, 400).image,
                        MapConfigs[1], 0, 1, 116).image
OtherFiles(img) ==
  {InitImage(n, 100) : n \in ImageLens}
    \cup {img, EditedOnce(img), EditedTwice(img)}

\* One pass of the loop of CompareFiles.
CompareOne(file1, file2, cfg) ==
  LET map1 == ReadMap(file1, cfg)
      map2 == ReadMap(file2, cfg)
  IN  IF ~map1.ok \/ ~map2.ok
        THEN [cfg |-> cfg, status |-> "error", Data1 |-> << >>, Data2 |-> << >>,
              diff |-> << >>, stats |-> "none"]
        ELSE LET differences == compareMapData(map1.Data, map2.Data)
             IN  [cfg |-> cfg, status |-> differences.status,
                  Data1 |-> map1.Data, Data2 |-> map2.Data,
                  diff |-> differences.diff,
                  stats |-> IF differences.status = "ok"
                              THEN displayComparison(differences.diff, cfg)
                              ELSE "none"]

CompareFiles ==
  /\ ops < MaxOps
  /\ \E other \in OtherFiles(image), imageFirst \in BOOLEAN, mapType \in MapTypes :
       LET file1 == IF imageFirst THEN image ELSE other
           file2 == IF imageFirst THEN other ELSE image
           selectedConfigs == SelectedConfigs(mapType)
       IN  last' = Done("CompareFiles", "ok", "none",
                        [file1 |-> file1, file2 |-> file2, mapType |-> mapType],
                        "none",
                        [k \in 1 .. Len(selectedConfigs) |->
                           CompareOne(file1, file2, selectedConfigs[k])])
  /\ ops' = ops + 1
  /\ UNCHANGED <<gui, web>>
  /\ UNCHANGED <<image, backups, now>>

\* handleCompareData: /api/compare/<idx>?file1=...&file2=...
CompareIndexes == {-1, 0, 1, 2, 3}

handleCompareData ==
  /\ ops < MaxOps
  /\ \E idx \in CompareIndexes :
       \/ /\ idx < 0 \/ idx >= Len(MapConfigs)
          /\ last' = Done("handleCompareData", "error", "badrequest", [idx |-> idx],
                          "none", "none")
       \/ /\ ~(idx < 0 \/ idx >= Len(MapConfigs))
          /\ \E other \in OtherFiles(image), imageFirst \in BOOLEAN :
               LET file1 == IF imageFirst THEN image ELSE other
                   file2 == IF imageFirst THEN other ELSE image
                   cfg == MapConfigs[idx + 1]
                   ecuMap1 == ReadMap(file1, cfg)
                   ecuMap2 == ReadMap(file2, cfg)
                   arg == [idx |-> idx, file1 |-> file1, file2 |-> file2]
               IN  IF ~ecuMap1.ok \/ ~ecuMap2.ok
                     THEN last' = Done("handleCompareData", "error", "read", arg,
                                       "none", "none")
                     ELSE last' = Done("handleCompareData", "ok", "none", arg, "none",
                            << [cfg |-> cfg, status |-> "ok",
                                Data1 |-> ecuMap1.Data, Data2 |-> ecuMap2.Data,
                                diff |-> [i \in 1 .. cfg.Rows |->
                                            [j \in 1 .. cfg.Cols |->
                                               ecuMap2.Data[i][j] - ecuMap1.Data[i][j]]],
                                stats |-> "none"] >>)
  /\ ops' = ops + 1
  /\ UNCHANGED <<gui, web>>
  /\ UNCHANGED <<image, backups, now>>

\* compareMapData applied to two tables read with any two descriptors of
\* the catalog.
DiffConfigs == {MapConfigs[1], MapConfigs[2], CorrectionTable1}

CompareMapData ==
  /\ ops < MaxOps
  /\ \E cfgA \in DiffConfigs, cfgB \in DiffConfigs, other \in OtherFiles(image) :
       /\ ReadMap(image, cfgA).ok
       /\ ReadMap(other, cfgB).ok
       /\ LET res == compareMapData(ReadMap(image, cfgA).Data, ReadMap(other, cfgB).Data)
          IN  last' = Done("compareMapData", res.status, "none",
                           [cfgA |-> cfgA, cfgB |-> cfgB, other |-> other],
                           "none", res.diff)
  /\ ops' = ops + 1
  /\ UNCHANGED <<gui, web>>
  /\ UNCHANGED <<image, backups, now>>

(***************************************************************************)
(* The GTK main window (package gui).  One action per signal handler; the  *)
(* edit and confirmation dialogs are modal, so while one is open only its  *)
(* response can arrive.  Message boxes (showErrorDialog, showInfoDialog)   *)
(* change nothing and are left out.  ops counts the saves.                 *)
(***************************************************************************)
MaxSaves == 1

\* fmt.Sscanf(text, "%f", &newValue) on the texts drawn here: a text that is
\* no number fails, "NaN" scans as the float64 NaN, a decimal scans as its
\* value (in hundredths).
Sscanf(text) ==
  CASE text = "NaN" -> [err |-> FALSE, nan |-> TRUE, num |-> 0]
    [] text = "1.16" -> [err |-> FALSE, nan |-> FALSE, num |-> 116]
    [] text = "4.00" -> [err |-> FALSE, nan |-> FALSE, num |-> 400]
    [] text = "700.00" -> [err |-> FALSE, nan |-> FALSE, num |-> 70000]
    [] text = "5999.0" -> [err |-> FALSE, nan |-> FALSE, num |-> 599900]
    [] text = "6000.0" -> [err |-> FALSE, nan |-> FALSE, num |-> 600000]
    [] text = "7500.0" -> [err |-> FALSE, nan |-> FALSE, num |-> 750000]
    [] text = "7501.0" -> [err |-> FALSE, nan |-> FALSE, num |-> 750100]
    [] OTHER -> [err |-> TRUE, nan |-> FALSE, num |-> 0]

CellTexts == {"abc", "1.16", "4.00", "700.00"}
ParamTexts == {"abc", "NaN", "1.16", "700.00", "5999.0", "6000.0", "7500.0", "7501.0"}

\* newValue < param.MinValue || newValue > param.MaxValue on float64: every
\* comparison with NaN is false.
GuiOutOfRange(param, v) == ~v.nan /\ OutOfRange(param, v.num)

\* The bytes binary.Read consumes for a value of the data type; an unknown
\* data type reads nothing.
ParamWidth(dataType) ==
  CASE dataType \in {"uint8", "int8"} -> 1
    [] dataType \in {"uint16", "int16"} -> 2
    [] OTHER -> 0

\* The value binary.Read stores (little endian) for the data type: int8
\* and int16 are two's complement.
SignedRaw(img, param) ==
  LET w == ParamWidth(param.DataType)
      u == IF w = 0 THEN 0
           ELSE IF w = 1 THEN At(img, param.Offset)
           ELSE At(img, param.Offset) + 256 * At(img, param.Offset + 1)
  IN  IF param.DataType = "int8" /\ u >= 128 THEN u - 256
      ELSE IF param.DataType = "int16" /\ u >= 32768 THEN u - 65536
      ELSE u

\* reader.ReadConfigParam: the raw value is converted to float64 in its own
\* type, so a negative int8 or int16 stays negative.  An unknown data type
\* returns 0 without an error.
ReadConfigParam(img, param) ==
  IF ParamWidth(param.DataType) = 0
    THEN [ok |-> TRUE, value |-> 0]
    ELSE IF param.Offset + ParamWidth(param.DataType) > Len(img)
      THEN [ok |-> FALSE, value |-> 0]
      ELSE [ok |-> TRUE,
            value |-> SignedRaw(img, param) * param.Scale + param.Offset2]

\* The tables of the sidebar: two of one shape and one of another, as the
\* 8 x 16 and 8 x 8 tables of models.MapConfigs.
GuiCatalog == <<MapConfigs[1], MapConfigs[2], CorrectionTable1>>
GuiMaps == 1 .. Len(GuiCatalog)

\* The body of loadCurrentMap on the window g with the opened file img:
\* currentMap is assigned before the comparison file is read, and a failed
\* read of the comparison file returns with compareMap as it was.
loadCurrentMapOf(g, img) ==
  LET mapConfig == GuiCatalog[g.selectedMapIdx]
      ecuMap == ReadMap(img, mapConfig)
      compareMap == ReadMap(g.compareFile.data, mapConfig)
      g1 == [g EXCEPT !.currentMap =
               [loaded |-> TRUE, Config |-> mapConfig,
                Data |-> ecuMap.Data, asRead |-> ecuMap.Data]]
  IN  IF ~ecuMap.ok
        THEN [gui |-> g, status |-> "error", err |-> "read", cfg |-> mapConfig]
        ELSE IF ~g.compareFile.set
          THEN [gui |-> g1, status |-> "ok", err |-> "none", cfg |-> mapConfig]
          ELSE IF ~compareMap.ok
            THEN [gui |-> g1, status |-> "error", err |-> "compare",
                  cfg |-> mapConfig]
            ELSE [gui |-> [g1 EXCEPT !.compareMap =
                             [set |-> TRUE, Config |-> mapConfig,
                              Data |-> compareMap.Data]],
                  status |-> "ok", err |-> "none", cfg |-> mapConfig]

\* onMapSelected: a table is selected in the sidebar, then loadCurrentMap.
loadCurrentMap ==
  /\ UNCHANGED web
  /\ gui.dialog = "none"
  /\ \E selectedMapIdx \in GuiMaps :
       LET res == loadCurrentMapOf(
                    [gui EXCEPT !.selectedMapIdx = selectedMapIdx], image)
       IN  /\ gui' = res.gui
           /\ last' = Done("loadCurrentMap", res.status, res.err,
                           [cfg |-> res.cfg], "none", "none")
  /\ UNCHANGED <<image, backups, now, ops>>

\* loadECUFile: the file is opened and the selected table loaded.
loadECUFile ==
  /\ UNCHANGED web
  /\ gui.dialog = "none"
  /\ LET res == loadCurrentMapOf(gui, image)
     IN  /\ gui' = res.gui
         /\ last' = Done("loadECUFile", res.status, res.err,
                         [cfg |-> res.cfg], "none", "none")
  /\ UNCHANGED <<image, backups, now, ops>>

\* The files the comparison dialog can return: whole ones, one cut off
\* inside the second table and one that ends where the first table starts.
GuiCompareFiles ==
  {InitImage(n, 100) : n \in {FullLen, MapBase + Cells + 2, MapBase}}

\* openCompareDialog, answered with Compare and a file: compareFile is set
\* and loadCurrentMap reloads.
openCompareDialog ==
  /\ UNCHANGED web
  /\ gui.dialog = "none"
  /\ \E file \in GuiCompareFiles :
       LET res == loadCurrentMapOf(
                    [gui EXCEPT !.compareFile = [set |-> TRUE, data |-> file]],
                    image)
       IN  /\ gui' = res.gui
           /\ last' = Done("openCompareDialog", res.status, res.err,
                           [cfg |-> res.cfg], "none", "none")
  /\ UNCHANGED <<image, backups, now, ops>>

\* drawComparisonOverlay, called by drawMapFunc with the rows and columns
\* of currentMap: it reads compareMap.Data[row][col] for each of them, and
\* an index outside compareMap.Data panics.
OverlayInRange(current, compare) ==
  \A row \in 1 .. current.Config.Rows, col \in 1 .. current.Config.Cols :
     /\ row \in DOMAIN compare.Data
     /\ col \in DOMAIN compare.Data[row]

drawComparisonOverlay ==
  /\ UNCHANGED web
  /\ gui.currentMap.loaded
  /\ gui.compareMap.set
  /\ last' = IF OverlayInRange(gui.currentMap, gui.compareMap)
               THEN Done("drawComparisonOverlay", "ok", "none",
                         [cfg |-> gui.currentMap.Config], "none", "none")
               ELSE Done("drawComparisonOverlay", "panic", "index",
                         [cfg |-> gui.currentMap.Config], "none", "none")
  /\ UNCHANGED <<image, backups, now, ops, gui>>

\* onMapClicked on a cell of the grid: showCellEditDialog(row, col).
onMapClicked ==
  /\ UNCHANGED web
  /\ gui.dialog = "none"
  /\ gui.currentMap.loaded
  /\ \E rc \in ValidCells :
       /\ ~InvalidCoordinates(gui.currentMap.Config, rc[1], rc[2])
       /\ gui' = [gui EXCEPT !.dialog = "cellEdit", !.row = rc[1], !.col = rc[2]]
       /\ last' = Done("onMapClicked", "ok", "none",
                       [row |-> rc[1], col |-> rc[2]], "none", "none")
  /\ UNCHANGED <<image, backups, now, ops>>

\* The response of the cell edit dialog.
cellEditResponse ==
  /\ UNCHANGED web
  /\ gui.dialog = "cellEdit"
  /\ \/ /\ gui' = [gui EXCEPT !.dialog = "none"]
        /\ last' = Done("cellEditResponse", "cancelled", "none",
                        [response |-> "cancel"], "none", "none")
     \/ \E text \in CellTexts :
          LET newValue == Sscanf(text)
              arg == [response |-> "accept", text |-> text]
          IN  IF newValue.err
                THEN /\ gui' = [gui EXCEPT !.dialog = "none"]
                     /\ last' = Done("cellEditResponse", "error", "invalid", arg,
                                     "none", "none")
                ELSE /\ gui' = [gui EXCEPT !.dialog = "cellConfirm",
                                           !.value = [nan |-> newValue.nan,
                                                      num |-> newValue.num]]
                     /\ last' = Done("cellEditResponse", "ok", "none", arg,
                                     "none", "none")
  /\ UNCHANGED <<image, backups, now, ops>>

\* The response of the confirmation dialog of a cell edit; on accept,
\* saveCellEdit and the end of the edit dialog.
confirmAndSaveEdit ==
  /\ UNCHANGED web
  /\ gui.dialog = "cellConfirm"
  /\ LET arg == [cfg |-> gui.currentMap.Config, row |-> gui.row, col |-> gui.col,
                 value |-> gui.value]
     IN  \/ /\ gui' = [gui EXCEPT !.dialog = "cellEdit"]
            /\ last' = Done("confirmAndSaveEdit", "cancelled", "none", arg,
                            "none", "none")
            /\ UNCHANGED <<image, backups, ops>>
         \/ /\ ops < MaxSaves
            /\ ops' = ops + 1
            /\ \/ /\ gui' = [gui EXCEPT !.dialog = "none"]
                  /\ last' = Done("confirmAndSaveEdit", "error", "backup", arg,
                                  "failed", "none")
                  /\ UNCHANGED <<image, backups>>
               \/ LET res == EditMapCellDirectFile(image, gui.currentMap.Config,
                                                   gui.row, gui.col, gui.value.num)
                  IN  /\ backups' = CreateBackup(TRUE)
                      /\ image' = res.image
                      /\ gui' = [gui EXCEPT
                                   !.dialog = "none",
                                   !.currentMap.Data =
                                      IF res.status = "ok"
                                        THEN [@ EXCEPT ![gui.row + 1][gui.col + 1] =
                                                gui.value.num]
                                        ELSE @]
                      /\ last' = Done("confirmAndSaveEdit", res.status, res.err, arg,
                                      "written", "none")
  /\ UNCHANGED now

\* editConfigParam: the edit dialog of a parameter opens if its current
\* value can be read.
editConfigParam ==
  /\ UNCHANGED web
  /\ gui.dialog = "none"
  /\ \E i \in 1 .. Len(ConfigParams) :
       IF ~ReadConfigParam(image, ConfigParams[i]).ok
         THEN /\ gui' = gui
              /\ last' = Done("editConfigParam", "error", "read",
                              [param |-> ConfigParams[i]], "none", "none")
         ELSE /\ gui' = [gui EXCEPT !.dialog = "paramEdit", !.param = i]
              /\ last' = Done("editConfigParam", "ok", "none",
                              [param |-> ConfigParams[i]], "none", "none")
  /\ UNCHANGED <<image, backups, now, ops>>

\* The response of the parameter edit dialog.
paramEditResponse ==
  /\ UNCHANGED web
  /\ gui.dialog = "paramEdit"
  /\ LET param == ConfigParams[gui.param]
     IN  \/ /\ gui' = [gui EXCEPT !.dialog = "none"]
            /\ last' = Done("paramEditResponse", "cancelled", "none",
                            [response |-> "cancel", param |-> param], "none", "none")
         \/ \E text \in ParamTexts :
              LET newValue == Sscanf(text)
                  v == [nan |-> newValue.nan, num |-> newValue.num]
                  arg == [response |-> "accept", param |-> param, text |-> text]
              IN  IF newValue.err
                    THEN /\ gui' = [gui EXCEPT !.dialog = "none"]
                         /\ last' = Done("paramEditResponse", "error", "invalid", arg,
                                         "none", "none")
                  ELSE IF GuiOutOfRange(param, v)
                    THEN /\ gui' = [gui EXCEPT !.dialog = "none"]
                         /\ last' = Done("paramEditResponse", "error", "range", arg,
                                         "none", "none")
                  ELSE /\ gui' = [gui EXCEPT !.dialog = "paramConfirm", !.value = v]
                       /\ last' = Done("paramEditResponse", "ok", "none", arg,
                                       "none", "none")
  /\ UNCHANGED <<image, backups, now, ops>>

\* uint8 of a float64 NaN (implementation-dependent; 0 on amd64 and arm64).
Uint8OfNaN == 0

\* The response of the confirmation dialog of a parameter edit; on accept,
\* saveConfigParam and the end of the edit dialog.
confirmAndSaveConfigParam ==
  /\ UNCHANGED web
  /\ gui.dialog = "paramConfirm"
  /\ LET param == ConfigParams[gui.param]
         arg == [param |-> param, value |-> gui.value]
     IN  \/ /\ gui' = [gui EXCEPT !.dialog = "paramEdit"]
            /\ last' = Done("confirmAndSaveConfigParam", "cancelled", "none", arg,
                            "none", "none")
            /\ UNCHANGED <<image, backups, ops>>
         \/ /\ ops < MaxSaves
            /\ ops' = ops + 1
            /\ gui' = [gui EXCEPT !.dialog = "none"]
            /\ \/ /\ last' = Done("confirmAndSaveConfigParam", "error", "backup", arg,
                                  "failed", "none")
                  /\ UNCHANGED <<image, backups>>
               \/ LET res == IF gui.value.nan
                                THEN IF param.Offset >= Len(image)
                                       THEN [status |-> "error", err |-> "bounds",
                                             image |-> image]
                                       ELSE [status |-> "ok", err |-> "none",
                                             image |-> [image EXCEPT ![param.Offset + 1] =
                                                          Uint8OfNaN]]
                                ELSE EditorWriteConfigParamFile(image, param,
                                                                gui.value.num)
                  IN  /\ backups' = CreateBackup(TRUE)
                      /\ image' = res.image
                      /\ last' = Done("confirmAndSaveConfigParam", res.status, res.err,
                                      arg, "written", "none")
  /\ UNCHANGED now

NextGui ==
  \/ loadCurrentMap
  \/ onMapClicked
  \/ cellEditResponse
  \/ confirmAndSaveEdit
  \/ editConfigParam
  \/ paramEditResponse
  \/ confirmAndSaveConfigParam

SpecGui == Init /\ [][NextGui]_vars

\* The main window in comparison mode: files are opened, tables selected,
\* comparison files chosen, and the grid drawn.
NextCompare ==
  \/ loadCurrentMap
  \/ loadECUFile
  \/ openCompareDialog
  \/ drawComparisonOverlay

SpecCompare == Init /\ [][NextCompare]_vars

(***************************************************************************)
(* export.ExportMapsToCSV.  The labels of the axes depend on the shape, so *)
(* the catalog here keeps the shapes of the source (8 x 16 and 8 x 8); the *)
(* tables lie one after the other from MapBase on.  A value is written     *)
(* with %.2f, which prints the hundredths the model holds.                 *)
(***************************************************************************)
ExportConfigs ==
  << [Name |-> "Main Fuel Map", Offset |-> MapBase, Rows |-> 8, Cols |-> 16,
      DataType |-> "uint8", Scale |-> 4, Offset2 |-> 0],
     [Name |-> "Ignition Timing Map", Offset |-> MapBase + 128, Rows |-> 8,
      Cols |-> 16, DataType |-> "uint8", Scale |-> 75, Offset2 |-> -2400],
     [Name |-> "Correction Table 1", Offset |-> MapBase + 256, Rows |-> 8,
      Cols |-> 8, DataType |-> "uint8", Scale |-> 1, Offset2 |-> 0] >>

ExportFullLen == MapBase + 256 + 64

\* The whole image, one cut off inside the last table, one cut off inside
\* the second table, one cut off inside the first.
ExportLens == {ExportFullLen, ExportFullLen - 1, MapBase + 128 + 5, MapBase + 5}

\* The tables whose lowercased name contains mapType.
ExportTypes ==
  {"all", "fuel", "timing", "ignition", "map", "table", "correction", "boost"}
ExportSelected(mapType) ==
  CASE mapType = "all" -> ExportConfigs
    [] mapType = "fuel" -> << ExportConfigs[1] >>
    [] mapType \in {"timing", "ignition"} -> << ExportConfigs[2] >>
    [] mapType = "map" -> << ExportConfigs[1], ExportConfigs[2] >>
    [] mapType \in {"table", "correction"} -> << ExportConfigs[3] >>
    [] OTHER -> << >>

\* The file exportMapToCSV writes: the metadata lines, the header and one
\* line per row.  rpmStep and loadStep are quotients of ints.
exportMapToCSV(m) ==
  LET rpmStep == 8000 \div m.Config.Cols
      loadStep == 100 \div m.Config.Rows
  IN  [Name |-> m.Config.Name, Offset |-> m.Config.Offset,
       Rows |-> m.Config.Rows, Cols |-> m.Config.Cols,
       header |-> [j \in 1 .. m.Config.Cols |-> (j - 1) * rpmStep],
       rows |-> [i \in 1 .. m.Config.Rows |->
                   [label |-> (i - 1) * loadStep, cells |-> m.Data[i]]]]

\* ExportMapsToCSV: a table that cannot be read is skipped with a warning.
ExportOne(img, cfg) ==
  LET ecuMap == ReadMap(img, cfg)
  IN  IF ~ecuMap.ok
        THEN << >>
        ELSE << exportMapToCSV([Config |-> cfg, Data |-> ecuMap.Data]) >>

ExportMapsToCSV ==
  /\ ops < MaxOps
  /\ \E mapType \in ExportTypes :
       LET selectedConfigs == ExportSelected(mapType)
       IN  last' = Done("ExportMapsToCSV", "ok", "none", [mapType |-> mapType],
                        "none",
                        Flatten([k \in 1 .. Len(selectedConfigs) |->
                                   ExportOne(image, selectedConfigs[k])]))
  /\ ops' = ops + 1
  /\ UNCHANGED <<gui, web>>
  /\ UNCHANGED <<image, backups, now>>

InitExport ==
  /\ \E n \in ExportLens, f \in Fills : image = InitImage(n, f)
  /\ backups = << >>
  /\ now = 0
  /\ ops = 0
  /\ last = NoOp
  /\ gui = GuiInit
  /\ web = WebInit

SpecExport == InitExport /\ [][ExportMapsToCSV]_vars

(***************************************************************************)
(* The HTTP viewer (package web).  net/http serves every request in its    *)
(* own goroutine, so the handlers of several requests interleave.          *)
(* handleMapData is the one handler that assigns to something it did not   *)
(* create (cfg.Offset), so it is modelled step by step; the other handlers *)
(* read and answer in one step.  The server serves the image (s.binFiles). *)
(***************************************************************************)
\* readConfigValue: the raw value is widened to uint64 before it is
\* scaled, so a negative int8 or int16 becomes 2^64 + raw.  The value is
\* kept as raw*Scale + Offset2 with the mark `wrapped' for the 2^64 * Scale
\* to be added.  An unknown data type reads nothing and leaves rawValue 0.
readConfigValue(img, param) ==
  IF ParamWidth(param.DataType) > 0
       /\ param.Offset + ParamWidth(param.DataType) > Len(img)
    THEN [ok |-> FALSE, wrapped |-> FALSE, value |-> 0]
    ELSE LET raw == SignedRaw(img, param)
         IN  [ok |-> TRUE, wrapped |-> raw < 0,
              value |-> raw * param.Scale + param.Offset2]

\* ReadConfigParams over a catalog: Values has an entry for every parameter
\* that could be read (an error skips the parameter).
ReadConfigParamsOf(img, params) ==
  [k \in {k \in DOMAIN params : readConfigValue(img, params[k]).ok} |->
     readConfigValue(img, params[k])]

ReadConfigParams(img) == ReadConfigParamsOf(img, ConfigParams)

\* The requests: the map index of the path, the offset of the query (absent,
\* text that "0x%x" does not scan, or a number).
WebIndexes == {-1, 0, 1}
NoOffset == [given |-> FALSE, ok |-> FALSE, val |-> 0]
WebOffsets ==
  {NoOffset, [given |-> TRUE, ok |-> FALSE, val |-> 0],
   [given |-> TRUE, ok |-> TRUE, val |-> MapBase + 1],
   [given |-> TRUE, ok |-> TRUE, val |-> FullLen]}

SetReq(w, r, req) == [w EXCEPT !.reqs[r] = req]

\* handleMapData, to the copy of the catalog entry: cfg := models.MapConfigs[idx].
mapDataConfig(r) ==
  /\ web.reqs[r].pc = "idle"
  /\ \E idx \in WebIndexes, offset \in WebOffsets :
       IF idx < 0 \/ idx >= Len(web.catalog)
         THEN web' = SetReq(web, r, [NoRequest EXCEPT !.pc = "done", !.kind = "map",
                                       !.idx = idx, !.offset = offset,
                                       !.resp = [status |-> "badrequest"]])
         ELSE web' = SetReq(web, r, [NoRequest EXCEPT !.pc = "copied", !.kind = "map",
                                       !.idx = idx, !.offset = offset,
                                       !.cfg = web.catalog[idx + 1]])
  /\ UNCHANGED <<image, backups, now, ops, last, gui>>

\* Mutant of OverrideOffset: cfg refers to the catalog entry itself
\* (cfg := &models.MapConfigs[idx]), so the assignment reaches the catalog.
OverrideOffsetShared(w, r) ==
  LET req == w.reqs[r]
  IN  IF req.offset.given /\ req.offset.ok
        THEN [w EXCEPT !.reqs[r].cfg.Offset = req.offset.val,
                       !.reqs[r].pc = "read",
                       !.catalog[req.idx + 1].Offset = req.offset.val]
        ELSE [w EXCEPT !.reqs[r].pc = "read"]

\* if _, err := fmt.Sscanf(offsetStr, "0x%x", &customOffset); err == nil {
\*   cfg.Offset = customOffset }: cfg is the handler's own copy.
OverrideOffset(w, r) ==
  LET req == w.reqs[r]
  IN  IF req.offset.given /\ req.offset.ok
        THEN [w EXCEPT !.reqs[r].cfg.Offset = req.offset.val,
                       !.reqs[r].pc = "read"]
        ELSE [w EXCEPT !.reqs[r].pc = "read"]

mapDataOffset(r) ==
  /\ web.reqs[r].pc = "copied"
  /\ web' = OverrideOffset(web, r)
  /\ UNCHANGED <<image, backups, now, ops, last, gui>>

\* The answer of handleMapData for a descriptor.
MapResponse(img, cfg) ==
  LET ecuMap == ReadMap(img, cfg)
  IN  IF ~ecuMap.ok
        THEN [status |-> "error"]
        ELSE [status |-> "ok", Name |-> cfg.Name, Offset |-> cfg.Offset,
              Rows |-> cfg.Rows, Cols |-> cfg.Cols, Data |-> ecuMap.Data]

mapDataRead(r) ==
  /\ web.reqs[r].pc = "read"
  /\ web' = [web EXCEPT !.reqs[r].pc = "done",
                        !.reqs[r].resp = MapResponse(image, web.reqs[r].cfg)]
  /\ UNCHANGED <<image, backups, now, ops, last, gui>>

handleMapData == \E r \in 1 .. MaxRequests :
  mapDataConfig(r) \/ mapDataOffset(r) \/ mapDataRead(r)

\* handleConfigData: the parameters and the values that could be read.
handleConfigData == \E r \in 1 .. MaxRequests :
  /\ web.reqs[r].pc = "idle"
  /\ web' = SetReq(web, r, [NoRequest EXCEPT !.pc = "done", !.kind = "config",
                              !.resp = [status |-> "ok", params |-> ConfigParams,
                                        values |-> ReadConfigParams(image)]])
  /\ UNCHANGED <<image, backups, now, ops, last, gui>>

\* handleFileList and handleMode answer from the fields of the server.
handleFileList == \E r \in 1 .. MaxRequests :
  /\ web.reqs[r].pc = "idle"
  /\ web' = SetReq(web, r, [NoRequest EXCEPT !.pc = "done", !.kind = "files",
                              !.resp = [status |-> "ok", files |-> << "image" >>]])
  /\ UNCHANGED <<image, backups, now, ops, last, gui>>

handleMode == \E r \in 1 .. MaxRequests :
  /\ web.reqs[r].pc = "idle"
  /\ web' = SetReq(web, r, [NoRequest EXCEPT !.pc = "done", !.kind = "mode",
                              !.resp = [status |-> "ok", mode |-> "multi",
                                        fileCount |-> 1]])
  /\ UNCHANGED <<image, backups, now, ops, last, gui>>

\* handleCompareData as a request among the others: the image against
\* itself with one cell edited.
CompareResponse(idx, file1, file2) ==
  IF idx < 0 \/ idx >= Len(MapConfigs)
    THEN [status |-> "badrequest"]
    ELSE LET cfg == MapConfigs[idx + 1]
             ecuMap1 == ReadMap(file1, cfg)
             ecuMap2 == ReadMap(file2, cfg)
         IN  IF ~ecuMap1.ok \/ ~ecuMap2.ok
               THEN [status |-> "error"]
               ELSE [status |-> "ok", Name |-> cfg.Name, Offset |-> cfg.Offset,
                     Data1 |-> ecuMap1.Data, Data2 |-> ecuMap2.Data,
                     Diff |-> [i \in 1 .. cfg.Rows |->
                                 [j \in 1 .. cfg.Cols |->
                                    ecuMap2.Data[i][j] - ecuMap1.Data[i][j]]]]

compareRequest == \E r \in 1 .. MaxRequests :
  /\ web.reqs[r].pc = "idle"
  /\ \E idx \in WebIndexes :
       web' = SetReq(web, r, [NoRequest EXCEPT !.pc = "done", !.kind = "compare",
                                !.idx = idx,
                                !.resp = CompareResponse(idx, image, EditedOnce(image))])
  /\ UNCHANGED <<image, backups, now, ops, last, gui>>

NextWeb ==
  \/ handleMapData
  \/ handleConfigData
  \/ handleFileList
  \/ handleMode
  \/ compareRequest

SpecWeb == Init /\ [][NextWeb]_vars

(***************************************************************************)
(* editor.InteractiveEdit and editor.ApplyPreset: the menu and the preset  *)
(* name choose the editor, and dryRun is handed to the editors that take   *)
(* it.  Each editor is a function of the file and of what the user enters; *)
(* its result names the status, the file it leaves and the backup made.    *)
(***************************************************************************)
Untouched(img, status, err) ==
  [status |-> status, err |-> err, image |-> img, backup |-> "none"]

\* EditRevLimiter(filename, dryRun)
EditRevLimiterCall(img, rpm, dryRun, confirm, backupOk) ==
  IF InvalidRpm(rpm) THEN Untouched(img, "error", "range")
  ELSE IF dryRun THEN Untouched(img, "dryrun", "none")
  ELSE IF ~confirm THEN Untouched(img, "cancelled", "none")
  ELSE IF ~backupOk
    THEN [status |-> "error", err |-> "backup", image |-> img, backup |-> "failed"]
    ELSE [status |-> "ok", err |-> "none", image |-> RevLimiterWrite(img, rpm),
          backup |-> "written"]

\* EditMapCell(filename, cfg): the function has no dryRun parameter.
EditMapCellCall(img, cfg, row, col, newValue, confirm, backupOk) ==
  IF InvalidCoordinates(cfg, row, col) THEN Untouched(img, "error", "coordinates")
  ELSE IF ~confirm THEN Untouched(img, "cancelled", "none")
  ELSE LET res == EditMapCellWrite(img, cfg, row, col, newValue)
       IN  [status |-> res.status, err |-> res.err, image |-> res.image,
            backup |-> BackupOutcome(backupOk)]

\* ScaleMap(filename, dryRun)
ScaleMapCall(img, cfg, q, dryRun, confirm, backupOk) ==
  IF UnsafeMultiplier(q) THEN Untouched(img, "error", "range")
  ELSE IF dryRun THEN Untouched(img, "dryrun", "none")
  ELSE IF ~confirm THEN Untouched(img, "cancelled", "none")
  ELSE LET res == ScaleBytes(img, cfg, q, 4)
       IN  [status |-> res.status, err |-> res.err, image |-> res.image,
            backup |-> BackupOutcome(backupOk)]

\* applyFuelEnrichPreset(filename, dryRun)
applyFuelEnrichPresetCall(img, dryRun, confirm, backupOk) ==
  IF dryRun THEN Untouched(img, "dryrun", "none")
  ELSE IF ~confirm THEN Untouched(img, "cancelled", "none")
  ELSE LET res == ScaleBytes(img, MapConfigs[1], 105, 100)
       IN  [status |-> res.status, err |-> res.err, image |-> res.image,
            backup |-> BackupOutcome(backupOk)]

\* What a call leaves: the file, and the backup if one was written.
Leaves(op, arg, res) ==
  /\ image' = res.image
  /\ backups' = CreateBackup(res.backup = "written")
  /\ last' = Done(op, res.status, res.err, arg, res.backup, "none")

InteractiveOptions ==
  {"Edit Rev Limiter", "Edit Fuel Map Cell", "Edit Ignition Map Cell",
   "Scale Entire Map", "Exit"}
InteractiveRpms == {2999, 7500}
InteractiveCells == {<<0, 1>>, <<Rows, 0>>}
InteractiveMultipliers == {1, 8}

InteractiveEdit ==
  /\ ops < MaxOps
  /\ \E dryRun \in BOOLEAN, proceed \in BOOLEAN, option \in InteractiveOptions,
        confirm \in BOOLEAN, backupOk \in BOOLEAN :
       LET arg == [dryRun |-> dryRun, proceed |-> proceed, option |-> option,
                   confirm |-> confirm]
       IN  IF ~proceed
             THEN Leaves("InteractiveEdit", arg, Untouched(image, "cancelled", "none"))
           ELSE IF option = "Edit Rev Limiter"
             THEN \E rpm \in InteractiveRpms :
                    Leaves("InteractiveEdit", arg,
                           EditRevLimiterCall(image, rpm, dryRun, confirm, backupOk))
           ELSE IF option = "Edit Fuel Map Cell"
             THEN \E rc \in InteractiveCells :
                    Leaves("InteractiveEdit", arg,
                           EditMapCellCall(image, MapConfigs[1], rc[1], rc[2], 400,
                                           confirm, backupOk))
           ELSE IF option = "Edit Ignition Map Cell"
             THEN \E rc \in InteractiveCells :
                    Leaves("InteractiveEdit", arg,
                           EditMapCellCall(image, MapConfigs[2], rc[1], rc[2], 400,
                                           confirm, backupOk))
           ELSE IF option = "Scale Entire Map"
             THEN \E i \in 1 .. Len(MapConfigs), q \in InteractiveMultipliers :
                    Leaves("InteractiveEdit", arg,
                           ScaleMapCall(image, MapConfigs[i], q, dryRun, confirm,
                                        backupOk))
           ELSE Leaves("InteractiveEdit", arg, Untouched(image, "exit", "none"))
  /\ ops' = ops + 1
  /\ UNCHANGED <<gui, web>>
  /\ UNCHANGED now

PresetNames == {"revlimit", "fuel-enrich", "boost"}

ApplyPreset ==
  /\ ops < MaxOps
  /\ \E dryRun \in BOOLEAN, presetName \in PresetNames, confirm \in BOOLEAN,
        backupOk \in BOOLEAN :
       LET arg == [dryRun |-> dryRun, presetName |-> presetName, confirm |-> confirm]
       IN  IF presetName = "revlimit"
             THEN \E rpm \in InteractiveRpms :
                    Leaves("ApplyPreset", arg,
                           EditRevLimiterCall(image, rpm, dryRun, confirm, backupOk))
           ELSE IF presetName = "fuel-enrich"
             THEN Leaves("ApplyPreset", arg,
                         applyFuelEnrichPresetCall(image, dryRun, confirm, backupOk))
           ELSE Leaves("ApplyPreset", arg, Untouched(image, "error", "unknown"))
  /\ ops' = ops + 1
  /\ UNCHANGED <<gui, web>>
  /\ UNCHANGED now

NextInteractive == Tick \/ InteractiveEdit \/ ApplyPreset

SpecInteractive == Init /\ [][NextInteractive]_vars

(***************************************************************************)
(* The layout of the whole catalog (models.MapConfigs, all ten tables, and *)
(* models.ConfigParams).  Every table offset of the source is a multiple   *)
(* of 0x40 and every shape a multiple of 4 x 4, so the layout is kept to   *)
(* scale: addresses count from the lowest table (0x60C0 = 24768) in units  *)
(* of 16 bytes, and 8 x 16 and 8 x 8 become 2 x 4 and 2 x 2.  The four     *)
(* parameters keep their places one after the other from 0x7000 on.        *)
(***************************************************************************)
ScaledOffset(offset) == (offset - 24768) \div 16

LayoutTable(name, offset, rows, cols, scale, offset2) ==
  [Name |-> name, Offset |-> ScaledOffset(offset), Rows |-> rows \div 4,
   Cols |-> cols \div 4, DataType |-> "uint8", Scale |-> scale, Offset2 |-> offset2]

LayoutCatalog ==
  << LayoutTable("Main Fuel Map", 26368, 8, 16, 4, 0),
     LayoutTable("Ignition Timing Map", 26496, 8, 16, 75, -2400),
     LayoutTable("Lambda Target Map", 26624, 8, 16, 1, 50),
     LayoutTable("Correction Table 1", 24768, 8, 8, 1, 0),
     LayoutTable("Fuel/Timing Trim 1", 27840, 8, 16, 1, 0),
     LayoutTable("Correction Table 2", 27904, 8, 8, 1, 0),
     LayoutTable("Fuel/Timing Trim 2", 28352, 8, 16, 1, 0),
     LayoutTable("Correction Table 3", 28544, 8, 8, 1, 0),
     LayoutTable("Trim Table 1", 28992, 8, 16, 1, 0),
     LayoutTable("Trim Table 2", 29184, 8, 16, 1, 0) >>

LayoutParam(name, offset, scale, min, max) ==
  [Name |-> name, Offset |-> ScaledOffset(28672) + (offset - 28672),
   DataType |-> "uint8", Scale |-> scale, Offset2 |-> 0,
   MinValue |-> min, MaxValue |-> max]

LayoutParams ==
  << LayoutParam("Rev Limiter", 28672, 8537, 600000, 750000),
     LayoutParam("Idle Speed Target", 28673, 1000, 65000, 110000),
     LayoutParam("Unknown Param 1", 28674, 100, 0, 25500),
     LayoutParam("Unknown Param 2", 28675, 100, 0, 25500) >>

\* The end of the last table.
LayoutLen == ScaledOffset(29184) + 8

\* ScaleMap offers every table of the catalog; the multiplier is 2.0.
ScaleCatalogMap ==
  /\ ops < MaxOps
  /\ \E i \in 1 .. Len(LayoutCatalog) :
       LET cfg == LayoutCatalog[i]
           res == ScaleBytes(image, cfg, 8, 4)
       IN  /\ backups' = CreateBackup(TRUE)
           /\ image' = res.image
           /\ last' = Done("ScaleMap", res.status, res.err,
                           [table |-> i, cfg |-> cfg, multiplier |-> 8],
                           "written", "none")
  /\ ops' = ops + 1
  /\ UNCHANGED <<gui, web>>
  /\ UNCHANGED now

\* EditMapCellDirect on the last cell of a table of the catalog (the GUI
\* lists every table), value 1.00.
EditCatalogCell ==
  /\ ops < MaxOps
  /\ \E i \in 1 .. Len(LayoutCatalog) :
       LET cfg == LayoutCatalog[i]
           res == EditMapCellDirectFile(image, cfg, cfg.Rows - 1, cfg.Cols - 1, 100)
       IN  /\ image' = res.image
           /\ last' = Done("EditMapCellDirect", res.status, res.err,
                           [table |-> i, cfg |-> cfg, row |-> cfg.Rows - 1,
                            col |-> cfg.Cols - 1, value |-> 100],
                           "none", "none")
  /\ ops' = ops + 1
  /\ UNCHANGED <<gui, web>>
  /\ UNCHANGED <<backups, now>>

InitCatalog ==
  /\ \E f \in Fills : image = InitImage(LayoutLen, f)
  /\ backups = << >>
  /\ now = 0
  /\ ops = 0
  /\ last = NoOp
  /\ gui = GuiInit
  /\ web = WebInit

NextCatalog == ScaleCatalogMap \/ EditCatalogCell

SpecCatalog == InitCatalog /\ [][NextCatalog]_vars

(***************************************************************************)
(* The two readers of a parameter: ReadConfigParams reads a catalog        *)
(* through readConfigValue, ReadConfigParam reads one parameter.  The      *)
(* catalog here has a parameter of each data type, all stored at the start *)
(* of the image; the images are the byte strings of up to two bytes taken  *)
(* from the ends and the middle of the byte range.                         *)
(***************************************************************************)
TypedParam(name, dataType, scale, offset2) ==
  [Name |-> name, Offset |-> 0, DataType |-> dataType, Scale |-> scale,
   Offset2 |-> offset2, MinValue |-> 0, MaxValue |-> 0]

TypedParams ==
  << TypedParam("uint8", "uint8", 8537, 0),
     TypedParam("uint16", "uint16", 100, 0),
     TypedParam("int8", "int8", 75, -2400),
     TypedParam("int16", "int16", 100, 50) >>

TypedBytes == {0, 1, 127, 128, 255}

TypedImages ==
  {<< >>} \cup {<<a>> : a \in TypedBytes}
          \cup {<<a, b>> : a \in TypedBytes, b \in TypedBytes}

\* ReadConfigParams on the image.
DoReadConfigParams ==
  /\ last' = Done("ReadConfigParams", "ok", "none", [params |-> TypedParams],
                  "none", ReadConfigParamsOf(image, TypedParams))
  /\ UNCHANGED <<image, backups, now, ops, gui, web>>

\* ReadConfigParam on the image, for one parameter of the catalog.
DoReadConfigParam ==
  /\ \E k \in DOMAIN TypedParams :
       LET res == ReadConfigParam(image, TypedParams[k])
       IN  last' = Done("ReadConfigParam", IF res.ok THEN "ok" ELSE "error",
                        IF res.ok THEN "none" ELSE "read",
                        [k |-> k, param |-> TypedParams[k]], "none", res)
  /\ UNCHANGED <<image, backups, now, ops, gui, web>>

InitParams ==
  /\ image \in TypedImages
  /\ backups = << >>
  /\ now = 0
  /\ ops = 0
  /\ last = NoOp
  /\ gui = GuiInit
  /\ web = WebInit

NextParams == DoReadConfigParams \/ DoReadConfigParam

SpecParams == InitParams /\ [][NextParams]_vars

Next ==
  \/ Tick
  \/ DoReadMap
  \/ EditMapCellDirect
  \/ EditMapCell
  \/ EditRevLimiter
  \/ ScaleMap
  \/ ApplyFuelEnrichPreset
  \/ ReaderWriteConfigParam
  \/ EditorWriteConfigParam
  \/ EncodeDecoded
  \/ DecodeEncoded
  \/ ScanForMaps
  \/ ScanForMapsBytes
  \/ CompareFiles
  \/ handleCompareData
  \/ CompareMapData
  \/ NextGui
  \/ ExportMapsToCSV
  \/ NextWeb
  \/ InteractiveEdit
  \/ ApplyPreset
  \/ NextCatalog
  \/ NextCompare
  \/ NextParams

Spec == Init /\ [][Next]_vars

\* The cell editors and the table reader.
NextCells == Tick \/ DoReadMap \/ EditMapCellDirect \/ EditMapCell

SpecCells == Init /\ [][NextCells]_vars

\* The whole-table and parameter editors.
NextBulk ==
  \/ Tick
  \/ EditRevLimiter
  \/ ScaleMap
  \/ ApplyFuelEnrichPreset
  \/ ReaderWriteConfigParam
  \/ EditorWriteConfigParam

SpecBulk == Init /\ [][NextBulk]_vars

\* The writers of one cell and of a whole table, all widths.
NextWrap == EditMapCellDirect \/ ScaleMap

SpecWrap == Init /\ [][NextWrap]_vars

\* The scanners, on images made for them.
NextScan == ScanForMaps \/ ScanForMapsBytes

SpecScan == InitScan /\ [][NextScan]_vars

\* The differ.
NextDiff == CompareFiles \/ handleCompareData \/ CompareMapData

SpecDiff == Init /\ [][NextDiff]_vars

\* The codec round trips.
NextCodec == EncodeDecoded \/ DecodeEncoded

SpecCodec == Init /\ [][NextCodec]_vars

(***************************************************************************)
(* Properties.  `last' describes the call that ended last: last.pre and    *)
(* last.preBackups are the image and the backups when it began.            *)
(***************************************************************************)
CellEditors == {"EditMapCellDirect", "EditMapCell"}

\* C5: a cell write with row outside 0..rows-1 or col outside 0..cols-1
\* reports an error and changes no byte of the image; with both indexes in
\* range the call does not fail on the index check.
C5_IndexCheck ==
  last.op \in CellEditors =>
    LET a == last.arg
        inRange == a.row \in 0 .. a.cfg.Rows - 1 /\ a.col \in 0 .. a.cfg.Cols - 1
    IN  /\ ~inRange => /\ last.status = "error"
                        /\ last.err = "coordinates"
                        /\ image = last.pre
        /\ inRange => last.err # "coordinates"

C5_Witness ==
  /\ last.op \in CellEditors
  /\ last.arg.row = last.arg.cfg.Rows
  /\ last.status = "error"
  /\ image = last.pre

\* C7: scaling by a multiplier below 0.5 or above 2.0 is rejected with the
\* image and the set of backups unchanged; 0.5 and 2.0 are not rejected.
\* (Multipliers are in quarters: 0.5 is 2 and 2.0 is 8.)
C7_MultiplierBand ==
  last.op = "ScaleMap" =>
    LET q == last.arg.multiplier
    IN  /\ (q < 2 \/ q > 8) => /\ last.status = "error"
                                /\ last.err = "range"
                                /\ image = last.pre
                                /\ backups = last.preBackups
        /\ q \in {2, 8} => last.err # "range"

C7_Witness ==
  /\ last.op = "ScaleMap"
  /\ last.arg.multiplier = 9
  /\ last.status = "error"
  /\ backups = last.preBackups

\* C9: a table read succeeds when offset + rows*cols*width is at most the
\* image length (in particular when the table ends on the image's last
\* byte) and fails, returning no grid at all, when the table needs even
\* one byte more.
C9_ReadBounds ==
  last.op = "ReadMap" =>
    LET cfg == last.arg.cfg
        w == IF cfg.DataType = "uint8" THEN 1 ELSE 2
        end == cfg.Offset + cfg.Rows * cfg.Cols * w
    IN  /\ end <= Len(last.pre) => last.out.ok
        /\ end > Len(last.pre) => ~last.out.ok /\ last.out.Data = << >>

C9_Witness ==
  /\ last.op = "ReadMap"
  /\ last.arg.cfg.DataType = "uint16"
  /\ last.arg.cfg.Offset + last.arg.cfg.Rows * last.arg.cfg.Cols * 2 = Len(last.pre)
  /\ last.out.ok

\* C10: in a successful table read the grid has rows x cols cells and cell
\* (i, j) is raw * scale + bias, raw being the unsigned integer in the
\* width bytes at offset + (i*cols + j)*width, low byte first.
C10_ReadCells ==
  (last.op = "ReadMap" /\ last.out.ok) =>
    LET cfg == last.arg.cfg
        w == IF cfg.DataType = "uint8" THEN 1 ELSE 2
        d == last.out.Data
        raw(off) == IF w = 1 THEN last.pre[off + 1]
                             ELSE last.pre[off + 1] + 256 * last.pre[off + 2]
    IN  /\ DOMAIN d = 1 .. cfg.Rows
        /\ \A i \in 0 .. cfg.Rows - 1 :
             /\ DOMAIN d[i + 1] = 1 .. cfg.Cols
             /\ \A j \in 0 .. cfg.Cols - 1 :
                  d[i + 1][j + 1] =
                    raw(cfg.Offset + (i * cfg.Cols + j) * w) * cfg.Scale + cfg.Offset2

C10_Witness ==
  /\ last.op = "ReadMap"
  /\ last.out.ok
  /\ last.arg.cfg.DataType = "uint16"
  /\ last.pre # InitImage(Len(last.pre), 32)
  /\ last.pre # InitImage(Len(last.pre), 100)
  /\ last.out.Data[1][2] > 255

(***************************************************************************)
(* Statements that the code does not satisfy.                              *)
(***************************************************************************)
\* C1: in every write path the image is modified only after a backup of it
\* has been written, and a failed backup aborts the call with the image
\* unchanged.
C1_BackupBeforeWrite ==
  last.op \in {"EditMapCell", "ScaleMap", "EditRevLimiter",
               "ApplyFuelEnrichPreset", "ReaderWriteConfigParam"} =>
    /\ image # last.pre => /\ last.backup = "written"
                           /\ last.at \in DOMAIN backups
                           /\ backups[last.at] = last.pre
    /\ last.backup = "failed" => /\ image = last.pre
                                 /\ last.status = "error"

\* C2: after a successful call of a directly callable writer
\* (EditMapCellDirect, either WriteConfigParam) a backup exists whose
\* content is the image as it was right before the call.
C2_BackupOfPriorImage ==
  ( /\ last.op \in {"EditMapCellDirect", "EditorWriteConfigParam",
                    "ReaderWriteConfigParam"}
    /\ last.status = "ok" ) =>
    \E t \in DOMAIN backups : backups[t] = last.pre

\* The bytes a whole-table or parameter edit is asked to write.
TargetRegion(call) ==
  CASE call.op = "EditRevLimiter" -> {RevLimiterOffset}
    [] call.op \in {"ScaleMap", "ApplyFuelEnrichPreset"} ->
         call.arg.cfg.Offset ..
           call.arg.cfg.Offset + call.arg.cfg.Rows * call.arg.cfg.Cols - 1
    [] OTHER -> {call.arg.param.Offset}

\* C3: an editor call either ends without success and with no byte of the
\* image changed, or reports success with every requested byte written; it
\* never reports success with nothing written and never breaks off.
C3_AllOrNothing ==
  last.op \in {"EditRevLimiter", "ScaleMap", "ApplyFuelEnrichPreset",
               "ReaderWriteConfigParam", "EditorWriteConfigParam"} =>
    \/ /\ last.status \in {"error", "dryrun", "cancelled"}
       /\ image = last.pre
    \/ /\ last.status = "ok"
       /\ TargetRegion(last) \subseteq 0 .. Len(image) - 1

\* C4: a parameter write with a value below the parameter's min or above
\* its max returns an error and leaves the image unchanged; min and max
\* themselves are not rejected as out of range.
C4_RangeRejection ==
  ( /\ last.op \in {"ReaderWriteConfigParam", "EditorWriteConfigParam"}
    /\ "value" \in DOMAIN last.arg ) =>
    LET p == last.arg.param
        v == last.arg.value
    IN  /\ (v < p.MinValue \/ v > p.MaxValue) => /\ last.status = "error"
                                                  /\ image = last.pre
        /\ v \in {p.MinValue, p.MaxValue} => last.err # "range"

\* C6: a successful cell write on (row, col) of a table of storage width w
\* leaves the length of the image and every byte outside the w bytes at
\* offset + (row*cols + col)*w unchanged.
C6_CellFrame ==
  (last.op = "EditMapCellDirect" /\ last.status = "ok") =>
    LET cfg == last.arg.cfg
        w == IF cfg.DataType = "uint8" THEN 1 ELSE 2
        off == cfg.Offset + (last.arg.row * cfg.Cols + last.arg.col) * w
    IN  /\ Len(image) = Len(last.pre)
        /\ \A k \in 0 .. Len(image) - 1 :
             (k < off \/ k >= off + w) => At(image, k) = At(last.pre, k)

\* C8: after a successful scaling by m every cell of the table stores
\* encode(m * decode(previous raw)), that is the low byte of
\* trunc((m * (raw*scale + bias) - bias) / scale), with m = q/4.
C8_ScaledPhysical ==
  (last.op = "ScaleMap" /\ last.status = "ok") =>
    LET cfg == last.arg.cfg
        q == last.arg.multiplier
    IN  \A k \in 0 .. cfg.Rows * cfg.Cols - 1 :
          LET old == At(last.pre, cfg.Offset + k)
          IN  At(image, cfg.Offset + k) =
                TruncDiv(q * (old * cfg.Scale + cfg.Offset2) - 4 * cfg.Offset2,
                         4 * cfg.Scale) % 256

\* C11: for every table and every physical value v inside the table's
\* natural raw range, decode(encode(v)) differs from v by less than one
\* unit of scale; and for every raw r, encode(decode(r)) = r, so writing
\* back the value just read leaves the cell's byte as it was.
C11_RoundTrip ==
  /\ last.op = "DecodeEncoded" =>
        LET cfg == last.arg.cfg
            v == last.arg.value
            d == last.out - v
        IN  (v >= cfg.Offset2 /\ v <= 255 * cfg.Scale + cfg.Offset2) =>
              (d < cfg.Scale /\ -d < cfg.Scale)
  /\ last.op = "EncodeDecoded" =>
        /\ image = last.pre
        /\ last.out = At(last.pre, last.arg.cfg.Offset
                                     + last.arg.row * last.arg.cfg.Cols + last.arg.col)

\* C12: when trunc((physical - bias)/scale) is an integer k outside
\* 0..2^(8*width)-1, the cell write stores k mod 2^(8*width) in the width
\* bytes of the cell (low byte first), raises no error and changes no
\* other byte; likewise a scaled byte whose product exceeds 255 is stored
\* mod 256 and no byte outside the table changes.
C12_Wrap ==
  /\ ( /\ last.op = "EditMapCellDirect"
       /\ last.err # "coordinates" ) =>
        LET cfg == last.arg.cfg
            w == IF cfg.DataType = "uint8" THEN 1 ELSE 2
            range == IF w = 1 THEN 256 ELSE 65536
            off == cfg.Offset + (last.arg.row * cfg.Cols + last.arg.col) * w
            k == TruncDiv(last.arg.value - cfg.Offset2, cfg.Scale)
            stored == At(image, off) + (IF w = 2 THEN 256 * At(image, off + 1) ELSE 0)
        IN  (off + w <= Len(last.pre) /\ (k < 0 \/ k >= range)) =>
              /\ last.status = "ok"
              /\ Len(image) = Len(last.pre)
              /\ stored = k % range
              /\ \A b \in 0 .. Len(image) - 1 :
                   (b < off \/ b >= off + w) => At(image, b) = At(last.pre, b)
  /\ (last.op = "ScaleMap" /\ last.status = "ok") =>
        LET cfg == last.arg.cfg
            inTable(b) == b >= cfg.Offset /\ b < cfg.Offset + cfg.Rows * cfg.Cols
        IN  /\ Len(image) = Len(last.pre)
            /\ \A b \in 0 .. Len(image) - 1 :
                 LET product == (At(last.pre, b) * last.arg.multiplier) \div 4
                 IN  /\ (inTable(b) /\ product > 255) => At(image, b) = product % 256
                     /\ ~inTable(b) => At(image, b) = At(last.pre, b)

(***************************************************************************)
(* The scanner: the decoded values of the window of a call, taken from the *)
(* image the scan began with, and whether the scan reported the window.    *)
(***************************************************************************)
Scans == {"ScanForMaps", "ScanForMapsBytes"}

WindowValues(c) ==
  { IF c.dataType = "uint8"
      THEN last.pre[c.offset + i + 1]
      ELSE IF c.endianness = "LE"
        THEN last.pre[c.offset + 2 * i + 1] + 256 * last.pre[c.offset + 2 * i + 2]
        ELSE 256 * last.pre[c.offset + 2 * i + 1] + last.pre[c.offset + 2 * i + 2]
    : i \in 0 .. c.rows * c.cols - 1 }

WindowMax(c) == CHOOSE m \in WindowValues(c) : \A v \in WindowValues(c) : v <= m
WindowMin(c) == CHOOSE m \in WindowValues(c) : \A v \in WindowValues(c) : v >= m
WindowRange(c) == WindowMax(c) - WindowMin(c)
Threshold(c) == IF c.dataType = "uint8" THEN 10 ELSE 100

Reported(c) ==
  \E k \in DOMAIN last.out.results :
    LET r == last.out.results[k]
    IN  /\ r.Offset = c.offset /\ r.Rows = c.rows /\ r.Cols = c.cols
        /\ r.DataType = c.dataType /\ r.Endianness = c.endianness

\* C13 (as amended): a window the scanner evaluates is reported as a
\* candidate if and only if (max - min) of its decoded values is at least
\* the threshold (10 for the 8-bit hypothesis, 100 for the 16-bit ones) and
\* max > 0: a window whose range equals the threshold exactly is reported;
\* a window of identical bytes and an all-zero window are not.
C13_ThresholdAtLeast ==
  last.op \in Scans =>
    \A k \in DOMAIN last.out.calls :
      LET c == last.out.calls[k]
      IN  Reported(c) <=> (WindowRange(c) >= Threshold(c) /\ WindowMax(c) > 0)

C13_Witness ==
  /\ last.op = "ScanForMaps"
  /\ \E k \in DOMAIN last.out.calls :
       LET c == last.out.calls[k]
       IN  c.dataType = "uint8" /\ WindowRange(c) = 10 /\ Reported(c)
  /\ \E k \in DOMAIN last.out.calls :
       LET c == last.out.calls[k]
       IN  WindowValues(c) = {5} /\ ~Reported(c)

\* C13 (as stated): a window is reported if and only if (max - min) of its
\* decoded values exceeds the threshold and max > 0, so that a window whose
\* range equals the threshold exactly is not reported.
C13_ThresholdExceeded ==
  last.op \in Scans =>
    \A k \in DOMAIN last.out.calls :
      LET c == last.out.calls[k]
      IN  Reported(c) <=> (WindowRange(c) > Threshold(c) /\ WindowMax(c) > 0)

(***************************************************************************)
(* The differ.  Physical(img, cfg, i, j) is the value of cell (i, j) of    *)
(* the (8-bit) table cfg in the file img.                                  *)
(***************************************************************************)
Differs == {"CompareFiles", "handleCompareData"}

Physical(img, cfg, i, j) ==
  img[cfg.Offset + i * cfg.Cols + j + 1] * cfg.Scale + cfg.Offset2

\* Every cell of a delta table is physical(file2) - physical(file1).
C14_Delta ==
  (last.op \in Differs /\ last.status = "ok") =>
    \A k \in DOMAIN last.out :
      LET e == last.out[k]
      IN  e.status # "error" =>
            /\ e.status = "ok"
            /\ DOMAIN e.diff = 1 .. e.cfg.Rows
            /\ \A i \in 0 .. e.cfg.Rows - 1 :
                 /\ DOMAIN e.diff[i + 1] = 1 .. e.cfg.Cols
                 /\ \A j \in 0 .. e.cfg.Cols - 1 :
                      e.diff[i + 1][j + 1] =
                        Physical(last.arg.file2, e.cfg, i, j)
                          - Physical(last.arg.file1, e.cfg, i, j)

\* A comparison followed by the comparison of the same table with the two
\* files exchanged gives the negated delta in every cell.
C14_Inverse ==
  ( /\ last.op \in Differs /\ last.status = "ok"
    /\ last'.op \in Differs /\ last'.status = "ok"
    /\ last'.arg.file1 = last.arg.file2
    /\ last'.arg.file2 = last.arg.file1 ) =>
    \A k \in DOMAIN last.out, m \in DOMAIN last'.out :
      LET e == last.out[k]
          f == last'.out[m]
      IN  (e.cfg = f.cfg /\ e.status = "ok") =>
            /\ f.status = "ok"
            /\ \A i \in 1 .. e.cfg.Rows, j \in 1 .. e.cfg.Cols :
                 e.diff[i][j] = -f.diff[i][j]

\* C14: for two tables A and B of the same shape, diff(A,B)[i][j] =
\* physical(B)[i][j] - physical(A)[i][j] for every cell, and diff(A,B)[i][j]
\* = -diff(B,A)[i][j] for every cell, in the CLI differ and in the HTTP
\* compare endpoint alike.
C14_DiffInverse == [](C14_Delta) /\ [][C14_Inverse]_vars

C14_Witness ==
  /\ last.op = "handleCompareData"
  /\ last.status = "ok"
  /\ ops = 2
  /\ last.preBackups = << >>
  /\ \E i \in 1 .. Rows, j \in 1 .. Cols : last.out[1].diff[i][j] > 0
  /\ \E i \in 1 .. Rows, j \in 1 .. Cols : last.out[1].diff[i][j] < 0
  /\ \E i \in 1 .. Rows, j \in 1 .. Cols : last.out[1].diff[i][j] = 0

RECURSIVE SumCells(_, _)
SumCells(d, S) ==
  IF S = {} THEN 0
  ELSE LET c == CHOOSE c \in S : TRUE
       IN  d[c[1]][c[2]] + SumCells(d, S \ {c})

\* C16: the summary of a delta table has changedCount = the number of
\* cells with delta # 0, meanOfChanged = (sum of the non-zero deltas) /
\* changedCount, maxIncrease = the largest positive delta and maxDecrease =
\* the most negative delta; cells with delta 0 contribute to none of them.
C16_Summary ==
  last.op = "CompareFiles" =>
    \A k \in DOMAIN last.out :
      LET e == last.out[k]
          cells == (1 .. e.cfg.Rows) \X (1 .. e.cfg.Cols)
          changed == {c \in cells : e.diff[c[1]][c[2]] # 0}
          up == {c \in cells : e.diff[c[1]][c[2]] > 0}
          down == {c \in cells : e.diff[c[1]][c[2]] < 0}
      IN  e.status = "ok" =>
            /\ e.stats.changedCells = Cardinality(changed)
            /\ changed # {} =>
                 /\ e.stats.avgDiff.kind = "finite"
                 /\ e.stats.avgDiff.num = SumCells(e.diff, changed)
                 /\ e.stats.avgDiff.den = Cardinality(changed)
            /\ up # {} =>
                 /\ \E c \in up : e.stats.maxDiff = e.diff[c[1]][c[2]]
                 /\ \A c \in up : e.stats.maxDiff >= e.diff[c[1]][c[2]]
            /\ down # {} =>
                 /\ \E c \in down : e.stats.minDiff = e.diff[c[1]][c[2]]
                 /\ \A c \in down : e.stats.minDiff <= e.diff[c[1]][c[2]]

C16_Witness ==
  /\ last.op = "CompareFiles"
  /\ Len(last.out) = 1
  /\ last.out[1].status = "ok"
  /\ last.out[1].stats.changedCells = 2
  /\ last.out[1].stats.maxDiff > 0
  /\ last.out[1].stats.minDiff < 0

\* C15: diff invoked on two tables whose (rows, cols) differ returns a
\* ShapeMismatch error: it produces no delta table and does not crash.
C15_ShapeMismatch ==
  ( /\ last.op = "compareMapData"
    /\ \/ last.arg.cfgA.Rows # last.arg.cfgB.Rows
       \/ last.arg.cfgA.Cols # last.arg.cfgB.Cols ) =>
    /\ last.status = "error"
    /\ last.out = << >>

\* C17: when the two compared tables are identical (changedCount = 0) the
\* summary reports an explicit "no changed cells" outcome for the mean and
\* divides nothing by zero.
C17_NoChangedCells ==
  last.op = "CompareFiles" =>
    \A k \in DOMAIN last.out :
      (last.out[k].status = "ok" /\ last.out[k].stats.changedCells = 0) =>
        last.out[k].stats.avgDiff.kind = "no changed cells"

\* C18: a backup file once written is never overwritten by a later write:
\* a call that writes a backup leaves every backup that existed before it
\* in place with its content, adding a new one, so that two writes within
\* one second yield two distinct backups and the backup of the original
\* image survives.
C18_BackupKept ==
  (last.op # "none" /\ last.backup = "written") =>
    /\ \A t \in DOMAIN last.preBackups :
         t \in DOMAIN backups /\ backups[t] = last.preBackups[t]
    /\ \E t \in DOMAIN backups : t \notin DOMAIN last.preBackups

(***************************************************************************)
(* The GUI.                                                                *)
(***************************************************************************)
GuiOps == {"loadCurrentMap", "onMapClicked", "cellEditResponse", "confirmAndSaveEdit",
           "editConfigParam", "paramEditResponse", "confirmAndSaveConfigParam"}

\* C19: in the GUI the image file is written (and a backup made) only by
\* accepting the confirmation dialog, which opens only when the edit
\* dialog was accepted; cancelling either dialog, or entering a text that
\* is no number or a value that is not within the parameter's range,
\* leaves the image and the set of backups unchanged: no value outside
\* [min, max] is ever saved.
C19_TwoStep ==
  /\ (last.op \in GuiOps /\ (image # last.pre \/ backups # last.preBackups)) =>
        /\ last.op \in {"confirmAndSaveEdit", "confirmAndSaveConfigParam"}
        /\ last.status # "cancelled"
  /\ gui.dialog \in {"cellConfirm", "paramConfirm"} =>
        /\ last.op \in {"cellEditResponse", "paramEditResponse"}
        /\ last.arg.response = "accept"
        /\ last.status = "ok"
  /\ ( /\ last.op = "confirmAndSaveConfigParam"
       /\ (image # last.pre \/ backups # last.preBackups) ) =>
        /\ ~last.arg.value.nan
        /\ last.arg.value.num >= last.arg.param.MinValue
        /\ last.arg.value.num <= last.arg.param.MaxValue

\* C20: a table is never modified after the reader constructed it: the
\* grid the window holds always equals what decoding the image gave when
\* it was read, also after a successful edit.
C20_TableImmutable ==
  gui.currentMap.loaded => gui.currentMap.Data = gui.currentMap.asRead
\* C21: in the exported table the label of column j is j*8000/cols and the
\* label of row i is i*100/rows (to the whole number below), for every
\* exported catalog table and every i < rows, j < cols.
C21_AxisLabels ==
  last.op = "ExportMapsToCSV" =>
    \A k \in DOMAIN last.out :
      LET e == last.out[k]
      IN  /\ \A j \in 0 .. e.Cols - 1 : e.header[j + 1] = (j * 8000) \div e.Cols
          /\ \A i \in 0 .. e.Rows - 1 : e.rows[i + 1].label = (i * 100) \div e.Rows

\* The hypotheses a scanner tries for each shape: ScanForMaps the three
\* widths and byte orders, the 8-bit scanner the bytes only.
Hypotheses(op) ==
  IF op = "ScanForMaps"
    THEN {<<"uint8", "N/A">>, <<"uint16", "LE">>, <<"uint16", "BE">>}
    ELSE {<<"uint8", "N/A">>}

WindowBytes(rows, cols, dataType) ==
  rows * cols * (IF dataType = "uint8" THEN 1 ELSE 2)

\* C22: the scanner evaluates, for every hypothesis, every offset that is a
\* multiple of the step and whose window fits in the image (offset +
\* rows*cols*width <= image length), the window ending at the last byte
\* included; and it reads no window that reaches past the end.
C22_EveryFittingWindow ==
  last.op \in Scans =>
    /\ \A s \in DOMAIN ScanSizes, h \in Hypotheses(last.op) :
         \A offset \in 0 .. Len(last.pre) :
           ( /\ offset % ScanStep = 0
             /\ offset + WindowBytes(ScanSizes[s].rows, ScanSizes[s].cols, h[1])
                  <= Len(last.pre) ) =>
             \E k \in DOMAIN last.out.calls :
               LET c == last.out.calls[k]
               IN  /\ c.rows = ScanSizes[s].rows
                   /\ c.cols = ScanSizes[s].cols
                   /\ c.dataType = h[1]
                   /\ c.endianness = h[2]
                   /\ c.offset = offset
    /\ \A k \in DOMAIN last.out.calls :
         LET c == last.out.calls[k]
         IN  c.offset + WindowBytes(c.rows, c.cols, c.dataType) <= Len(last.pre)

\* The place of a candidate in the scan: the shape, then the pass (the
\* 8-bit one before the 16-bit one), then the offset, then the byte order
\* (little-endian before big-endian).
ShapeIndex(r) ==
  CHOOSE s \in DOMAIN ScanSizes :
    ScanSizes[s].rows = r.Rows /\ ScanSizes[s].cols = r.Cols
ScanKey(r) ==
  << ShapeIndex(r),
     IF r.DataType = "uint8" THEN 0 ELSE 1,
     r.Offset,
     IF r.Endianness = "BE" THEN 1 ELSE 0 >>

KeyBefore(a, b) ==
  \E n \in 1 .. 4 : a[n] < b[n] /\ \A m \in 1 .. n - 1 : a[m] = b[m]

SameHypothesis(a, b) ==
  /\ a.Rows = b.Rows /\ a.Cols = b.Cols
  /\ a.DataType = b.DataType /\ a.Endianness = b.Endianness

\* C23 (as amended): candidates are emitted in scan order, without
\* re-sorting: the shape is the outer loop; within a shape come the 8-bit
\* candidates in strictly ascending offset, then the 16-bit candidates in
\* ascending offset, the little-endian one before the big-endian one of the
\* same offset.  The candidates of one hypothesis are in strictly ascending
\* offset.
C23_ScanOrder ==
  last.op \in Scans =>
    \A k1 \in DOMAIN last.out.results, k2 \in DOMAIN last.out.results :
      k1 < k2 => KeyBefore(ScanKey(last.out.results[k1]), ScanKey(last.out.results[k2]))

\* A little-endian candidate lies between two big-endian candidates of the
\* same shape.
C23_Witness ==
  /\ last.op = "ScanForMaps"
  /\ \E k \in DOMAIN last.out.results :
       /\ k + 2 \in DOMAIN last.out.results
       /\ last.out.results[k].Endianness = "BE"
       /\ last.out.results[k + 1].Endianness = "LE"
       /\ last.out.results[k + 2].Endianness = "BE"
       /\ last.out.results[k].Rows = last.out.results[k + 2].Rows
       /\ last.out.results[k].Cols = last.out.results[k + 2].Cols
       /\ last.out.results[k + 1].Rows = last.out.results[k].Rows
       /\ last.out.results[k + 1].Cols = last.out.results[k].Cols
       /\ last.out.results[k].Offset < last.out.results[k + 1].Offset
       /\ last.out.results[k + 1].Offset = last.out.results[k + 2].Offset

\* C23 as stated: the hypothesis (shape x width/byte order) is the outer
\* loop and the offset the inner loop: all candidates of one hypothesis are
\* contiguous in the output and in strictly ascending offset.
C23_HypothesisContiguous ==
  last.op \in Scans =>
    /\ \A k1 \in DOMAIN last.out.results, k2 \in DOMAIN last.out.results,
          k3 \in DOMAIN last.out.results :
         ( /\ k1 < k2 /\ k2 < k3
           /\ SameHypothesis(last.out.results[k1], last.out.results[k3]) ) =>
           SameHypothesis(last.out.results[k1], last.out.results[k2])
    /\ \A k1 \in DOMAIN last.out.results, k2 \in DOMAIN last.out.results :
         (k1 < k2 /\ SameHypothesis(last.out.results[k1], last.out.results[k2])) =>
           last.out.results[k1].Offset < last.out.results[k2].Offset

\* The answer to a map request served alone, from the catalog of the source.
ServedAlone(req, img) ==
  IF req.idx < 0 \/ req.idx >= Len(MapConfigs)
    THEN [status |-> "badrequest"]
    ELSE LET entry == MapConfigs[req.idx + 1]
             offset == IF req.offset.given /\ req.offset.ok
                         THEN req.offset.val ELSE entry.Offset
             size == entry.Rows * entry.Cols
         IN  IF offset + size > Len(img)
               THEN [status |-> "error"]
               ELSE [status |-> "ok", Name |-> entry.Name, Offset |-> offset,
                     Rows |-> entry.Rows, Cols |-> entry.Cols,
                     Data |-> [i \in 1 .. entry.Rows |->
                                 [j \in 1 .. entry.Cols |->
                                    img[offset + (i - 1) * entry.Cols + j]
                                      * entry.Scale + entry.Offset2]]]

C24_Answers ==
  /\ web.catalog = MapConfigs
  /\ \A r \in 1 .. MaxRequests :
       (web.reqs[r].pc = "done" /\ web.reqs[r].kind = "map") =>
         web.reqs[r].resp = ServedAlone(web.reqs[r], image)

C24_Frame == UNCHANGED <<image, backups>> /\ web'.catalog = web.catalog

\* C24: the HTTP viewer is read-only: no handler (map, compare, config,
\* files, mode), a map request with a custom offset included, modifies the
\* image, creates a backup or changes the shared catalog, so a request
\* served while others are being served gets the answer it gets alone.
C24_ReadOnly == [](C24_Answers) /\ [][C24_Frame]_vars

\* A map request with a custom offset and one for the same table without
\* have both been answered, each from its own offset.
C24_Witness ==
  \E r \in 1 .. MaxRequests, q \in 1 .. MaxRequests :
    /\ web.reqs[r].pc = "done" /\ web.reqs[r].kind = "map"
    /\ web.reqs[q].pc = "done" /\ web.reqs[q].kind = "map"
    /\ web.reqs[r].idx = web.reqs[q].idx
    /\ web.reqs[r].offset.given /\ web.reqs[r].offset.ok
    /\ ~web.reqs[q].offset.given
    /\ web.reqs[r].resp.status = "ok"
    /\ web.reqs[q].resp.status = "ok"
    /\ web.reqs[r].resp.Offset # web.reqs[q].resp.Offset
    /\ web.reqs[r].resp.Data # web.reqs[q].resp.Data

ParamWriters == {"ReaderWriteConfigParam", "EditorWriteConfigParam"}

\* C25: no write operation changes the length of the image, and a
\* parameter write whose offset lies at or beyond the end of the image is
\* rejected instead of extending the file.
C25_LengthKept ==
  last.op # "none" =>
    /\ Len(image) = Len(last.pre)
    /\ ( /\ last.op \in ParamWriters
         /\ "param" \in DOMAIN last.arg
         /\ last.arg.param.Offset >= Len(last.pre) ) =>
           (last.status = "error" /\ image = last.pre)

\* C26: an editor call that is rejected (row/col out of range, cell offset
\* out of bounds, multiplier out of band, parameter value out of range,
\* unknown parameter name, unsupported data type) leaves no new backup
\* behind: a backup is created only by calls that go on to mutate the image.
C26_NoBackupOnReject ==
  (last.op # "none" /\ last.status # "ok") => backups = last.preBackups

\* C27: when dryRun is true, no menu choice of InteractiveEdit (rev limiter,
\* fuel map cell, ignition map cell, scale map) and no preset of
\* ApplyPreset creates a backup or modifies the image file.
C27_DryRun ==
  (last.op \in {"InteractiveEdit", "ApplyPreset"} /\ last.arg.dryRun) =>
    (image = last.pre /\ backups = last.preBackups)

\* The bytes of a table and of a parameter.
TableRegion(cfg) == cfg.Offset .. cfg.Offset + cfg.Rows * cfg.Cols * CellWidth(cfg) - 1
ParamRegion(param) == param.Offset .. param.Offset + ParamWidth(param.DataType) - 1

\* C28: the byte regions of distinct catalog tables and of catalog
\* parameters are pairwise disjoint, so a cell write or a scale of one
\* table leaves the values read for every other catalog table and
\* parameter unchanged.
C28_Disjoint ==
  (last.op \in {"ScaleMap", "EditMapCellDirect"} /\ last.status = "ok") =>
    /\ \A i \in DOMAIN LayoutCatalog, j \in DOMAIN LayoutCatalog :
         i # j => TableRegion(LayoutCatalog[i]) \cap TableRegion(LayoutCatalog[j]) = {}
    /\ \A i \in DOMAIN LayoutCatalog, p \in DOMAIN LayoutParams :
         TableRegion(LayoutCatalog[i]) \cap ParamRegion(LayoutParams[p]) = {}
    /\ \A p \in DOMAIN LayoutParams, q \in DOMAIN LayoutParams :
         p # q => ParamRegion(LayoutParams[p]) \cap ParamRegion(LayoutParams[q]) = {}
    /\ \A j \in DOMAIN LayoutCatalog :
         j # last.arg.table =>
           ReadMap(image, LayoutCatalog[j]) = ReadMap(last.pre, LayoutCatalog[j])
    /\ \A p \in DOMAIN LayoutParams :
         ReadConfigParam(image, LayoutParams[p])
           = ReadConfigParam(last.pre, LayoutParams[p])

\* C29: in the main window, whenever compareMap is set it was read with the
\* descriptor of currentMap and has as many rows and columns, and drawing
\* the comparison overlay never indexes outside either grid.
SameGrid(current, compare) ==
  /\ compare.Config = current.Config
  /\ Len(compare.Data) = Len(current.Data)
  /\ \A row \in DOMAIN current.Data :
       row \in DOMAIN compare.Data
         => Len(compare.Data[row]) = Len(current.Data[row])

C29_CompareMatches ==
  /\ gui.compareMap.set
       => gui.currentMap.loaded /\ SameGrid(gui.currentMap, gui.compareMap)
  /\ last.op = "drawComparisonOverlay" => last.status = "ok"

\* C30: for a parameter of any of the data types uint8, uint16, int8 and
\* int16 and any stored raw value, ReadConfigParam returns a value exactly
\* when ReadConfigParams has one for the parameter, and the two are the same
\* raw*Scale + Offset2, a negative raw included.
C30_ReadersAgree ==
  last.op = "ReadConfigParam"
    => LET bulk == ReadConfigParamsOf(last.pre, TypedParams)
           k == last.arg.k
       IN  /\ last.out.ok <=> k \in DOMAIN bulk
           /\ last.out.ok
                => /\ ~bulk[k].wrapped
                   /\ bulk[k].value = last.out.value
                   /\ last.out.value
                        = SignedRaw(last.pre, last.arg.param)
                            * last.arg.param.Scale + last.arg.param.Offset2

====
